---- MODULE Spec2Model ----
(***************************************************************************)
(* Model of ms_products: synchronisation of an inventory catalogue into   *)
(* the national product catalogue (registry).                              *)
(*                                                                         *)
(* Python strings are modelled as sequences of Unicode code points, so     *)
(* that lower()/upper(), substring tests, slicing and sorted() are         *)
(* computed the way the interpreter computes them.                         *)
(***************************************************************************)
EXTENDS Integers, Sequences, FiniteSets, TLC

VARIABLES
    pc,          \* position of the operation in progress
    value,       \* find_similar_values: the value looked up
    preset,      \* find_similar_values: the vocabulary searched
    threshold,   \* find_similar_values: the (unused) threshold, in tenths
    similars,    \* find_similar_values: the list returned
    mapping,     \* category_mapper._MAPPING: tariff code -> [(cat_id, name), ...]
    lowPriority, \* config.LOW_PRIORITY_CATS
    tnved,       \* choose_category: the tariff code
    product_type,\* choose_category: the product kind ('' when absent)
    chosen,      \* choose_category: the category id returned
    registry,    \* the registry's answers: category info and categories by code
    infoCache,   \* memo of get_category_by_id (functools.cache)
    catsCache,   \* memo of get_categories_by_tnved (functools.cache)
    product_data,\* create_card_data: the product data
    card_cat_id, \* create_card_data: the category id passed (None when omitted)
    card,        \* create_card_data: the card returned
    colorCache,  \* memo of get_color_preset: <<>>, or <<the preset>>
    kindCache,   \* memo of get_kind_preset: category id -> preset
    item,        \* extract_item_data_with_inheritance: the inventory record
    extracted,   \* the records its calls returned, in order
    user_changes,\* send_product_to_nk: the changes the request carries
    pages,       \* get_all_assortment: the pages asked for so far
    fetchedRows, \* get_all_assortment: some page had rows
    calls,       \* the outbound calls of the request, in order
    response,    \* the request's answer ("" while it runs)
    result,      \* what the call in progress returned (NoResult before it returns)
    args,        \* the arguments of the call in progress (<<>> when there is none)
    threads,     \* concurrent requests: thread -> its call and its position
    cacheWrites, \* the keys written to the vocabulary cache, in order
    inventory,   \* the number of rows the inventory system holds
    all_items,   \* get_all_assortment: the rows gathered so far
    barcodes,    \* the barcodes the inventory system holds for the item
    existing_barcodes \* update_product_gtin: the barcodes it read

similarVars == <<value, preset, threshold, similars>>

configVars == <<mapping, lowPriority>>

categoryVars == <<tnved, product_type, chosen>>

registryVars == <<registry, infoCache, catsCache, colorCache, kindCache>>

cardVars == <<product_data, card_cat_id, card>>

extractVars == <<item, extracted>>

sendVars == <<user_changes, pages, fetchedRows, calls, response>>

callVars == <<result, args>>

threadVars == <<threads, cacheWrites>>

assortmentVars == <<inventory, all_items>>

barcodeVars == <<barcodes, existing_barcodes>>

vars == <<pc, similarVars, configVars, categoryVars, registryVars, cardVars,
          extractVars, sendVars, callVars, threadVars, assortmentVars,
          barcodeVars>>

(***************************************************************************)
(* Strings                                                                 *)
(***************************************************************************)

\* the empty string ''
EMPTY == <<>>

Min(a, b) == IF a <= b THEN a ELSE b

\* str.lower() on one character: A-Z, А-Я and Ё
LowerCh(c) ==
    IF c >= 65 /\ c <= 90 THEN c + 32
    ELSE IF c >= 1040 /\ c <= 1071 THEN c + 32
    ELSE IF c = 1025 THEN 1105
    ELSE c

\* str.upper() on one character: a-z, а-я and ё
UpperCh(c) ==
    IF c >= 97 /\ c <= 122 THEN c - 32
    ELSE IF c >= 1072 /\ c <= 1103 THEN c - 32
    ELSE IF c = 1105 THEN 1025
    ELSE c

Lower(s) == [i \in 1..Len(s) |-> LowerCh(s[i])]

Upper(s) == [i \in 1..Len(s) |-> UpperCh(s[i])]

\* a in b (Python substring test)
In(a, b) ==
    \E i \in 0..(Len(b) - Len(a)) : SubSeq(b, i + 1, i + Len(a)) = a

\* a < b in Python's string order (lexicographic by code point)
StrLess(a, b) ==
    \/ \E i \in 1..Min(Len(a), Len(b)) :
          /\ \A j \in 1..(i - 1) : a[j] = b[j]
          /\ a[i] < b[i]
    \/ /\ Len(a) < Len(b)
       /\ \A j \in 1..Len(a) : a[j] = b[j]

\* sorted(S) for a set of strings
RECURSIVE Sorted(_)
Sorted(S) ==
    IF S = {} THEN <<>>
    ELSE LET m == CHOOSE x \in S : \A y \in S \ {x} : StrLess(x, y)
         IN  <<m>> \o Sorted(S \ {m})

\* s[:n]
Prefix(s, n) == SubSeq(s, 1, Min(n, Len(s)))

\* s[:-n]
DropLast(s, n) == SubSeq(s, 1, Len(s) - n)

\* s.endswith(e)
EndsWith(s, e) ==
    Len(e) <= Len(s) /\ SubSeq(s, Len(s) - Len(e) + 1, Len(s)) = e

\* whitespace as str.strip(), str.split() and the pattern \s see it
IsSpace(c) == c \in {9, 10, 11, 12, 13, 28, 29, 30, 31, 32, 133, 160}

SetMin(S) == CHOOSE x \in S : \A y \in S : x <= y

SetMax(S) == CHOOSE x \in S : \A y \in S : y <= x

\* s.strip()
Strip(s) ==
    LET ink == {i \in 1..Len(s) : ~IsSpace(s[i])}
    IN  IF ink = {} THEN <<>> ELSE SubSeq(s, SetMin(ink), SetMax(ink))

\* the characters of s at the positions in keep, in order
Keep(s, keep) ==
    [k \in 1..Cardinality(keep) |->
        s[CHOOSE i \in keep : Cardinality({j \in keep : j < i}) = k - 1]]

\* set(s.split()): the maximal runs of non-whitespace characters
Split(s) ==
    LET n == Len(s)
        starts == {i \in 1..n : ~IsSpace(s[i]) /\ (i = 1 \/ IsSpace(s[i - 1]))}
        stop(i) == SetMin({j \in i..n : j = n \/ IsSpace(s[j + 1])})
    IN  {SubSeq(s, i, stop(i)) : i \in starts}

(***************************************************************************)
(* Vocabulary words used as inputs                                         *)
(***************************************************************************)

\* "КРАСНЫЙ"
W_KRASNYJ == <<1050, 1056, 1040, 1057, 1053, 1067, 1049>>
\* "СИНИЙ"
W_SINIJ == <<1057, 1048, 1053, 1048, 1049>>
\* "КРАСНОВАТЫЙ"
W_KRASNOVATYJ == <<1050, 1056, 1040, 1057, 1053, 1054, 1042, 1040, 1058, 1067, 1049>>
\* "Красный"
W_Krasnyj == <<1050, 1088, 1072, 1089, 1085, 1099, 1081>>
\* "КРАСН"
W_KRASN == <<1050, 1056, 1040, 1057, 1053>>
\* "ТЕМНО-КРАСНЫЙ"
W_TEMNO_KRASNYJ == <<1058, 1045, 1052, 1053, 1054, 45, 1050, 1056, 1040, 1057, 1053, 1067, 1049>>
\* "СВЕТЛО-КРАСНЫЙ"
W_SVETLO_KRASNYJ == <<1057, 1042, 1045, 1058, 1051, 1054, 45, 1050, 1056, 1040, 1057, 1053, 1067, 1049>>
\* "ЯРКО-КРАСНЫЙ"
W_JARKO_KRASNYJ == <<1071, 1056, 1050, 1054, 45, 1050, 1056, 1040, 1057, 1053, 1067, 1049>>
\* "КРАСНЫЙ МАК"
W_KRASNYJ_MAK == <<1050, 1056, 1040, 1057, 1053, 1067, 1049, 32, 1052, 1040, 1050>>
\* "БЕЛЫЙ"
W_BELYJ == <<1041, 1045, 1051, 1067, 1049>>

(***************************************************************************)
(* nk_api.find_similar_values                                              *)
(***************************************************************************)

\* the slice [:5] of find_similar_values
MaxSuggestions == 5

\* find_similar_values keeping only the hits whose length ratio reaches the
\* threshold (in tenths)
find_similar_values_thresholded(v, p, t) ==
    IF v = EMPTY \/ p = {} THEN <<>>
    ELSE Prefix(Sorted({w \in p :
                           /\ In(Lower(v), Lower(w)) \/ In(Lower(w), Lower(v))
                           /\ 10 * Min(Len(v), Len(w)) >= t * (Len(v) + Len(w) - Min(Len(v), Len(w)))}),
                MaxSuggestions)

\* find_similar_values comparing the vocabulary words without lowering them
find_similar_values_casesens(v, p, t) ==
    IF v = EMPTY \/ p = {} THEN <<>>
    ELSE LET val_low == Lower(v)
             hits == {w \in p : In(val_low, w) \/ In(w, val_low)}
         IN  Prefix(Sorted(hits), MaxSuggestions)

find_similar_values(v, p, t) ==
    IF v = EMPTY \/ p = {} THEN <<>>
    ELSE LET val_low == Lower(v)
             hits == {w \in p : In(val_low, Lower(w)) \/ In(Lower(w), val_low)}
         IN  Prefix(Sorted(hits), MaxSuggestions)

(***************************************************************************)
(* category_mapper: tokenizer                                              *)
(***************************************************************************)

\* the separators normalize_text turns into spaces: - _ / \
Separators == {45, 95, 47, 92}

ReplaceSeparators(s) ==
    [i \in 1..Len(s) |-> IF s[i] \in Separators THEN 32 ELSE s[i]]

\* every whitespace character as a space
AsSpaces(s) == [i \in 1..Len(s) |-> IF IsSpace(s[i]) THEN 32 ELSE s[i]]

\* re.sub(r'\s+', ' ', s): one space for each run of whitespace
CollapseSpaces(s) ==
    AsSpaces(Keep(s, {i \in 1..Len(s) :
                         ~IsSpace(s[i]) \/ i = 1 \/ ~IsSpace(s[i - 1])}))

normalize_text(text) == CollapseSpaces(ReplaceSeparators(Strip(Lower(text))))

\* "ы" "и" "а" "я" "ов" "ев": the endings that drop one character
Endings1 == {<<1099>>, <<1080>>, <<1072>>, <<1103>>, <<1086, 1074>>, <<1077, 1074>>}

\* "ий" "ый" "ой" "ая" "яя" "ое" "ее": the endings that drop two characters
Endings2 ==
    {<<1080, 1081>>, <<1099, 1081>>, <<1086, 1081>>, <<1072, 1103>>,
     <<1103, 1103>>, <<1086, 1077>>, <<1077, 1077>>}

\* "ами" "ями" "ках" "ьях": the endings that drop three characters
Endings3 ==
    {<<1072, 1084, 1080>>, <<1103, 1084, 1080>>, <<1082, 1072, 1093>>,
     <<1100, 1103, 1093>>}

EndsWithAny(t, endings) == \E e \in endings : EndsWith(t, e)

Stems(t) ==
    IF Len(t) > 3
    THEN (IF EndsWithAny(t, Endings1) THEN {DropLast(t, 1)} ELSE {})
         \cup (IF EndsWithAny(t, Endings2) THEN {DropLast(t, 2)} ELSE {})
         \cup (IF EndsWithAny(t, Endings3) THEN {DropLast(t, 3)} ELSE {})
    ELSE {}

WithStems(tokens) == tokens \cup UNION {Stems(t) : t \in tokens}

tokenize(text) == WithStems(Split(normalize_text(text)))

(***************************************************************************)
(* category_mapper: scoring and choice                                     *)
(***************************************************************************)

\* "брюк"
P_bryuk == <<1073, 1088, 1102, 1082>>
\* "юбк"
P_yubk == <<1102, 1073, 1082>>
\* "блуз"
P_bluz == <<1073, 1083, 1091, 1079>>
\* "блуж"
P_bluzh == <<1073, 1083, 1091, 1078>>

\* category ids the code names
CAT_TROUSERS == 30683
CAT_SKIRTS == 30685
CAT_BLOUSES == 238944
CAT_SHIRTS_OLD == 30686
CAT_SEWN_A == 214943
CAT_SEWN_B == 215009

INACTIVE_CATEGORIES == {CAT_SHIRTS_OLD}

\* the value of "no category": None (as falsy as 0 in every test the code makes)
None == 0

\* pat in ' '.join(query_tokens), for a pattern without a space: some token
\* holds it, whatever order the set is joined in
InQueryStr(pat, query_tokens) == \E t \in query_tokens : In(pat, t)

\* The score is kept as the exact fraction num/den.  The numerator counts
\* fortieths: an exact match is 40, a partial match (0.5) is 20, so that the
\* factors 0.3, 0.5, 2 and 3 keep it whole; den is 40 * len(query_tokens).
TotalScore(query_tokens, category_tokens) ==
    40 * Cardinality(query_tokens \cap category_tokens)
    + 20 * Cardinality({pr \in query_tokens \X category_tokens :
                           /\ Len(pr[1]) >= 3
                           /\ Len(pr[2]) >= 3
                           /\ (In(pr[1], pr[2]) \/ In(pr[2], pr[1]))})

\* the trousers query met by a skirts category: * 0.3
Penalise(total_score, query_tokens, category_lower) ==
    IF InQueryStr(P_bryuk, query_tokens) /\ In(P_yubk, category_lower)
    THEN (total_score * 3) \div 10
    ELSE total_score

HasBluz(query_tokens) ==
    InQueryStr(P_bluz, query_tokens) \/ InQueryStr(P_bluzh, query_tokens)

\* the factors of the categories known by id
Boost(total_score, query_tokens, cat_id) ==
    IF cat_id = CAT_TROUSERS /\ InQueryStr(P_bryuk, query_tokens)
        THEN total_score * 2
    ELSE IF /\ cat_id = CAT_SKIRTS
            /\ InQueryStr(P_yubk, query_tokens)
            /\ ~InQueryStr(P_bryuk, query_tokens)
        THEN total_score * 2
    ELSE IF cat_id = CAT_BLOUSES /\ HasBluz(query_tokens)
        THEN total_score * 3
    ELSE IF cat_id = CAT_SHIRTS_OLD /\ HasBluz(query_tokens)
        THEN total_score \div 2
    ELSE total_score

NormalizedScore(total_score, query_tokens) ==
    IF Cardinality(query_tokens) > 0
    THEN [num |-> total_score, den |-> 40 * Cardinality(query_tokens)]
    ELSE [num |-> 0, den |-> 1]

calculate_match_score(query_tokens, category_name, cat_id) ==
    NormalizedScore(
        Boost(Penalise(TotalScore(query_tokens, tokenize(category_name)),
                       query_tokens, Lower(category_name)),
              query_tokens, cat_id),
        query_tokens)

\* a > b for two scores
ScoreGreater(a, b) == a.num * b.den > b.num * a.den

\* _MAPPING.get(key): the entry, or nothing
MappingGet(m, key) == IF key \in DOMAIN m THEN m[key] ELSE <<>>

\* _mapping_for without the fall-back to the 4-digit group
_mapping_for_exact(m, code) == MappingGet(m, code)

_mapping_for(m, code) ==
    IF MappingGet(m, code) # <<>> THEN MappingGet(m, code)
    ELSE MappingGet(m, Prefix(code, 4))

\* the first candidate, whatever its priority is
_first_normal_or_any_first(cats, low) ==
    IF cats # <<>> THEN cats[1].id ELSE None

_first_normal_or_any(cats, low) ==
    LET normal == {i \in 1..Len(cats) :
                      cats[i].id \notin low /\ cats[i].id \notin INACTIVE_CATEGORIES}
        active == {i \in 1..Len(cats) : cats[i].id \notin INACTIVE_CATEGORIES}
    IN  IF normal # {} THEN cats[SetMin(normal)].id
        ELSE IF active # {} THEN cats[SetMin(active)].id
        ELSE IF cats # <<>> THEN cats[1].id
        ELSE None

\* the place of item i of scored after scored.sort(key=score, reverse=True):
\* behind every better score and behind the earlier items of the same score
SortRank(scored, i) ==
    Cardinality({j \in 1..Len(scored) :
                    ScoreGreater(scored[j].score, scored[i].score)})
    + Cardinality({j \in 1..(i - 1) :
                      scored[j].score.num * scored[i].score.den
                      = scored[i].score.num * scored[j].score.den})
    + 1

\* the scored candidates left in table order
SortByScore_unsorted(scored) == scored

SortByScore(scored) ==
    [k \in 1..Len(scored) |->
        scored[CHOOSE i \in 1..Len(scored) : SortRank(scored, i) = k]]

\* the filter of the inactive categories left out
ActiveCats_unfiltered(cats) == cats

\* the candidates outside the deny-list
WithoutInactive(cats) ==
    Keep(cats, {i \in 1..Len(cats) : cats[i].id \notin INACTIVE_CATEGORIES})

\* active_cats of choose_category
ActiveCats(cats) ==
    IF WithoutInactive(cats) = <<>> THEN cats ELSE WithoutInactive(cats)

ScoreAll(active_cats, query_tokens) ==
    [i \in 1..Len(active_cats) |->
        [id |-> active_cats[i].id,
         score |-> calculate_match_score(query_tokens, active_cats[i].name,
                                         active_cats[i].id)]]

PositiveScores(all) == Keep(all, {i \in 1..Len(all) : all[i].score.num > 0})

\* the choice among the scored candidates, best first
PickScored(scored_cats, active_cats, low) ==
    IF \E i \in 1..Len(scored_cats) : scored_cats[i].id \notin low
    THEN scored_cats[SetMin({i \in 1..Len(scored_cats) :
                                scored_cats[i].id \notin low})].id
    ELSE IF scored_cats # <<>> THEN scored_cats[1].id
    ELSE _first_normal_or_any(active_cats, low)

ChooseActive(active_cats, low, kind) ==
    IF kind = EMPTY THEN _first_normal_or_any(active_cats, low)
    ELSE PickScored(SortByScore(PositiveScores(ScoreAll(active_cats, tokenize(kind)))),
                    active_cats, low)

ChooseAmong(cats, low, kind) ==
    IF cats = <<>> THEN None ELSE ChooseActive(ActiveCats(cats), low, kind)

choose_category(m, low, code, kind) == ChooseAmong(_mapping_for(m, code), low, kind)

(***************************************************************************)
(* nk_api: category lookups                                                *)
(***************************************************************************)

\* config.DEFAULT_NK_CATEGORY
DEFAULT_NK_CATEGORY == 31326

\* nk_api.PRIORITY_CATEGORIES: clothes, shoes
PRIORITY_CATEGORIES == {30933, 30717}

\* choose_category on the process's table and low-priority set
LocalCategory(code, kind) == choose_category(mapping, lowPriority, code, kind)

\* _req("/v3/categories", tnved=code) or []: nothing when the call fails
RegistryCats(code) ==
    IF code \in DOMAIN registry.cats THEN registry.cats[code] ELSE <<>>

\* the body of get_categories_by_tnved: the group of a 10-digit code first
FetchCategories(code) ==
    IF Len(code) = 10 /\ RegistryCats(Prefix(code, 4)) # <<>>
    THEN RegistryCats(Prefix(code, 4))
    ELSE RegistryCats(code)

\* @cache get_categories_by_tnved
get_categories_by_tnved(code) ==
    IF code \in DOMAIN catsCache THEN catsCache[code] ELSE FetchCategories(code)

\* the body of get_category_by_id: "active", "inactive", or "none" for an
\* answer without the flag ({} when the call fails)
RegistryInfo(cid) ==
    IF cid \in DOMAIN registry.info THEN registry.info[cid] ELSE "none"

\* @cache get_category_by_id
get_category_by_id(cid) ==
    IF cid \in DOMAIN infoCache THEN infoCache[cid] ELSE RegistryInfo(cid)

\* category_info.get("category_active", True)
CategoryActive(info) == info # "inactive"

\* active_cats of determine_category_for_tnved
RemoteActive(cats) ==
    IF Keep(cats, {i \in 1..Len(cats) : cats[i].cat_id \notin INACTIVE_CATEGORIES}) = <<>>
    THEN cats
    ELSE Keep(cats, {i \in 1..Len(cats) : cats[i].cat_id \notin INACTIVE_CATEGORIES})

\* the loops of determine_category_for_tnved over the registry's categories
PickRemote(active_cats) ==
    IF \E i \in 1..Len(active_cats) :
           active_cats[i].cat_id \in PRIORITY_CATEGORIES /\ active_cats[i].category_active
    THEN active_cats[SetMin({i \in 1..Len(active_cats) :
             /\ active_cats[i].cat_id \in PRIORITY_CATEGORIES
             /\ active_cats[i].category_active})].cat_id
    ELSE IF \E i \in 1..Len(active_cats) : active_cats[i].category_active
    THEN active_cats[SetMin({i \in 1..Len(active_cats) :
             active_cats[i].category_active})].cat_id
    ELSE active_cats[1].cat_id

\* the local table gives an id and it is not on the deny-list
LocalUsable(code) ==
    /\ LocalCategory(code, EMPTY) # None
    /\ LocalCategory(code, EMPTY) \notin INACTIVE_CATEGORIES

determine_category_for_tnved(code) ==
    IF LocalUsable(code) THEN LocalCategory(code, EMPTY)
    ELSE IF code = EMPTY THEN DEFAULT_NK_CATEGORY
    ELSE IF get_categories_by_tnved(code) = <<>> THEN DEFAULT_NK_CATEGORY
    ELSE PickRemote(RemoteActive(get_categories_by_tnved(code)))

\* the codes determine_category_for_tnved asks get_categories_by_tnved for
CodesAskedForTnved(code) ==
    IF LocalUsable(code) \/ code = EMPTY THEN {} ELSE {code}

\* the local table gives an id and the registry does not call it inactive
LocalAccepted(code, kind) ==
    /\ LocalCategory(code, kind) # None
    /\ CategoryActive(get_category_by_id(LocalCategory(code, kind)))

determine_category_by_product_type(code, kind) ==
    IF LocalAccepted(code, kind) THEN LocalCategory(code, kind)
    ELSE determine_category_for_tnved(code)

\* the ids determine_category_by_product_type asks get_category_by_id for
IdsAskedByType(code, kind) ==
    IF LocalCategory(code, kind) # None THEN {LocalCategory(code, kind)} ELSE {}

CodesAskedByType(code, kind) ==
    IF LocalAccepted(code, kind) THEN {} ELSE CodesAskedForTnved(code)

(***************************************************************************)
(* nk_api.determine_gender                                                 *)
(***************************************************************************)

\* "ЖЕНСКИЙ"
G_FEMALE == <<1046, 1045, 1053, 1057, 1050, 1048, 1049>>
\* "МУЖСКОЙ"
G_MALE == <<1052, 1059, 1046, 1057, 1050, 1054, 1049>>
\* "БЕЗ УКАЗАНИЯ ПОЛА"
G_NONE == <<1041, 1045, 1047, 32, 1059, 1050, 1040, 1047, 1040, 1053, 1048, 1071, 32, 1055, 1054, 1051, 1040>>
\* "УНИВЕРСАЛЬНЫЙ (УНИСЕКС)"
G_UNISEX == <<1059, 1053, 1048, 1042, 1045, 1056, 1057, 1040, 1051, 1068, 1053, 1067, 1049, 32, 40, 1059, 1053, 1048, 1057, 1045, 1050, 1057, 41>>

\* "женск", "women", "female"
FemaleWords ==
    {<<1078, 1077, 1085, 1089, 1082>>, <<119, 111, 109, 101, 110>>,
     <<102, 101, 109, 97, 108, 101>>}

\* "мужск", "men", "male"
MaleWords == {<<1084, 1091, 1078, 1089, 1082>>, <<109, 101, 110>>, <<109, 97, 108, 101>>}

\* "детск", "kid", "child"
ChildWords == {<<1076, 1077, 1090, 1089, 1082>>, <<107, 105, 100>>, <<99, 104, 105, 108, 100>>}

\* "унисекс", "универсал"
UnisexWords ==
    {<<1091, 1085, 1080, 1089, 1077, 1082, 1089>>,
     <<1091, 1085, 1080, 1074, 1077, 1088, 1089, 1072, 1083>>}

HasAny(words, s) == \E w \in words : In(w, s)

\* the search of the product name without the default for a name that has
\* no key word
GenderByName_nodefault(name) ==
    IF HasAny(MaleWords, name) THEN G_MALE
    ELSE IF HasAny(FemaleWords, name) THEN G_FEMALE
    ELSE IF HasAny(ChildWords, name) THEN G_NONE
    ELSE EMPTY

\* the search of the product name; EMPTY stands for the result None
GenderByName(name) ==
    IF HasAny(MaleWords, name) THEN G_MALE
    ELSE IF HasAny(FemaleWords, name) THEN G_FEMALE
    ELSE IF HasAny(ChildWords, name) THEN G_NONE
    ELSE IF name # EMPTY THEN G_UNISEX
    ELSE EMPTY

GenderByAttribute(target_gender, name) ==
    IF target_gender # EMPTY /\ HasAny(FemaleWords, target_gender) THEN G_FEMALE
    ELSE IF target_gender # EMPTY /\ HasAny(MaleWords, target_gender) THEN G_MALE
    ELSE IF target_gender # EMPTY /\ HasAny(ChildWords, target_gender) THEN G_NONE
    ELSE IF target_gender # EMPTY /\ HasAny(UnisexWords, target_gender) THEN G_UNISEX
    ELSE GenderByName(name)

determine_gender(pd) == GenderByAttribute(Lower(pd.target_gender), Lower(pd.name))

(***************************************************************************)
(* nk_api.create_card_data                                                 *)
(***************************************************************************)

\* "брюки" "брюк" "штаны"
NameTrousers == {<<1073, 1088, 1102, 1082, 1080>>, <<1073, 1088, 1102, 1082>>,
                 <<1096, 1090, 1072, 1085, 1099>>}
\* "платье"
NameDress == {<<1087, 1083, 1072, 1090, 1100, 1077>>}
\* "блузка" "блуза"
NameBlouse == {<<1073, 1083, 1091, 1079, 1082, 1072>>, <<1073, 1083, 1091, 1079, 1072>>}
\* "юбка"
NameSkirt == {<<1102, 1073, 1082, 1072>>}
\* "куртка" "куртк"
NameJacket == {<<1082, 1091, 1088, 1090, 1082, 1072>>, <<1082, 1091, 1088, 1090, 1082>>}
\* "джемпер" "свитер"
NameJumper == {<<1076, 1078, 1077, 1084, 1087, 1077, 1088>>,
               <<1089, 1074, 1080, 1090, 1077, 1088>>}

\* the product kind the name stands for: "брюки", "платья", "блузки", "юбки",
\* "куртки", "джемперы", or EMPTY when no key word is in the name
NameKeyword(name) ==
    IF HasAny(NameTrousers, name) THEN <<1073, 1088, 1102, 1082, 1080>>
    ELSE IF HasAny(NameDress, name) THEN <<1087, 1083, 1072, 1090, 1100, 1103>>
    ELSE IF HasAny(NameBlouse, name) THEN <<1073, 1083, 1091, 1079, 1082, 1080>>
    ELSE IF HasAny(NameSkirt, name) THEN <<1102, 1073, 1082, 1080>>
    ELSE IF HasAny(NameJacket, name) THEN <<1082, 1091, 1088, 1090, 1082, 1080>>
    ELSE IF HasAny(NameJumper, name) THEN <<1076, 1078, 1077, 1084, 1087, 1077, 1088, 1099>>
    ELSE EMPTY

\* 1) tariff code and product kind
ByCodeAndKind(t, p) ==
    IF t # EMPTY /\ p # EMPTY THEN determine_category_by_product_type(t, p) ELSE None

\* 2) tariff code and a key word of the name
UsesName(c, t, n) == c = None /\ t # EMPTY /\ n # EMPTY /\ NameKeyword(n) # EMPTY

ByCodeAndName(c, t, n) ==
    IF UsesName(c, t, n) THEN determine_category_by_product_type(t, NameKeyword(n))
    ELSE c

\* 3) tariff code alone
ByCode(c, t) == IF c = None /\ t # EMPTY THEN determine_category_for_tnved(t) ELSE c

\* 4) product kind alone
ByKind(c, p) ==
    IF c = None /\ p # EMPTY THEN determine_category_by_product_type(EMPTY, p) ELSE c

\* the chain ending without the default
OrDefault_none(c) == c

\* 5) the default
OrDefault(c) == IF c = None THEN DEFAULT_NK_CATEGORY ELSE c

\* the category of a card built without a cat_id; t, p, n are the stripped
\* tariff code, the stripped product kind and the stripped, lowered name
ResolveCategory(t, p, n) ==
    OrDefault(ByKind(ByCode(ByCodeAndName(ByCodeAndKind(t, p), t, n), t), p))

\* the ids asked of get_category_by_id on the way
IdsAsked(t, p, n) ==
    (IF t # EMPTY /\ p # EMPTY THEN IdsAskedByType(t, p) ELSE {})
    \cup (IF UsesName(ByCodeAndKind(t, p), t, n)
          THEN IdsAskedByType(t, NameKeyword(n)) ELSE {})
    \cup (IF ByCode(ByCodeAndName(ByCodeAndKind(t, p), t, n), t) = None /\ p # EMPTY
          THEN IdsAskedByType(EMPTY, p) ELSE {})

\* the codes asked of get_categories_by_tnved on the way
CodesAsked(t, p, n) ==
    (IF t # EMPTY /\ p # EMPTY THEN CodesAskedByType(t, p) ELSE {})
    \cup (IF UsesName(ByCodeAndKind(t, p), t, n)
          THEN CodesAskedByType(t, NameKeyword(n)) ELSE {})
    \cup (IF ByCodeAndName(ByCodeAndKind(t, p), t, n) = None /\ t # EMPTY
          THEN CodesAskedForTnved(t) ELSE {})
    \cup (IF ByCode(ByCodeAndName(ByCodeAndKind(t, p), t, n), t) = None /\ p # EMPTY
          THEN CodesAskedByType(EMPTY, p) ELSE {})

\* the categories whose cards carry the full tariff code
FULL_TNVED_CATEGORIES == {CAT_SEWN_A, CAT_SEWN_B}

\* attribute ids
ATTR_COUNTRY == 2630
ATTR_FULL_NAME == 2478
ATTR_TRADEMARK == 2504
ATTR_TNVED_GROUP == 3959
ATTR_TNVED_DETAILED == 13933
ATTR_KIND == 12
ATTR_COLOR == 36
ATTR_SIZE == 35
ATTR_COMPOSITION == 2483
ATTR_REGULATION == 13836
ATTR_ARTICLE == 13914
ATTR_GENDER == 14013
ATTR_PERMIT_DOCS == 23557

\* "RU"
S_RU == <<82, 85>>
\* "БрендОдежды"
S_DEFAULT_BRAND == <<1041, 1088, 1077, 1085, 1076, 1054, 1076, 1077, 1078, 1076, 1099>>
\* "ТР ТС 017/2011 "О безопасности продукции легкой промышленности""
S_REGULATION == <<1058, 1056, 32, 1058, 1057, 32, 48, 49, 55, 47, 50, 48, 49, 49, 32, 34, 1054, 32, 1073, 1077, 1079, 1086, 1087, 1072, 1089, 1085, 1086, 1089, 1090, 1080, 32, 1087, 1088, 1086, 1076, 1091, 1082, 1094, 1080, 1080, 32, 1083, 1077, 1075, 1082, 1086, 1081, 32, 1087, 1088, 1086, 1084, 1099, 1096, 1083, 1077, 1085, 1085, 1086, 1089, 1090, 1080, 34>>
\* "МЕЖДУНАРОДНЫЙ"
S_INTERNATIONAL == <<1052, 1045, 1046, 1044, 1059, 1053, 1040, 1056, 1054, 1044, 1053, 1067, 1049>>
\* "Артикул"
S_ARTICLE == <<1040, 1088, 1090, 1080, 1082, 1091, 1083>>

Attr(id, v) == [attr_id |-> id, attr_value |-> v]

TypedAttr(id, v, type) == [attr_id |-> id, attr_value |-> v, attr_value_type |-> type]

\* an attribute appended only for a non-empty value
Optional(id, v) == IF v # EMPTY THEN <<Attr(id, v)>> ELSE <<>>

OptionalTyped(id, v, type) == IF v # EMPTY THEN <<TypedAttr(id, v, type)>> ELSE <<>>

\* product_data.get("brand_nk") or "БрендОдежды"
BrandOf(pd) == IF pd.brand_nk # EMPTY THEN pd.brand_nk ELSE S_DEFAULT_BRAND

\* the tariff group, appended whatever the tariff code is
TnvedAttrs_always(code) ==
    <<Attr(ATTR_TNVED_GROUP, Prefix(code, 4))>>
    \o (IF Len(code) = 10 THEN <<Attr(ATTR_TNVED_DETAILED, code)>> ELSE <<>>)

\* the tariff group and, for a 10-digit code, the detailed code
TnvedAttrs(code) ==
    IF code # EMPTY
    THEN <<Attr(ATTR_TNVED_GROUP, Prefix(code, 4))>>
         \o (IF Len(code) = 10 THEN <<Attr(ATTR_TNVED_DETAILED, code)>> ELSE <<>>)
    ELSE <<>>

GoodAttrs(pd) ==
    <<Attr(ATTR_COUNTRY, S_RU), Attr(ATTR_FULL_NAME, pd.name),
      Attr(ATTR_TRADEMARK, BrandOf(pd))>>
    \o TnvedAttrs(pd.tnved)
    \o Optional(ATTR_KIND, Upper(pd.product_type))
    \o Optional(ATTR_COLOR, Upper(pd.color))
    \o OptionalTyped(ATTR_SIZE, pd.size, S_INTERNATIONAL)
    \o Optional(ATTR_COMPOSITION, pd.composition)
    \o <<Attr(ATTR_REGULATION, S_REGULATION)>>
    \o OptionalTyped(ATTR_ARTICLE, pd.article, S_ARTICLE)
    \o Optional(ATTR_GENDER, determine_gender(pd))
    \o Optional(ATTR_PERMIT_DOCS, pd.permit_docs)

\* the tariff code of the card, cut to 4 characters for every category
TnvedForCard_cut(code, cat) == Prefix(code, 4)

\* tnved_for_card
TnvedForCard(code, cat) ==
    IF cat \notin FULL_TNVED_CATEGORIES
    THEN (IF Len(code) > 4 THEN Prefix(code, 4) ELSE code)
    ELSE code

\* the category of the card: the one passed, or the one resolved
CardCategory(pd, cid) ==
    IF cid = None
    THEN ResolveCategory(Strip(pd.tnved), Strip(pd.product_type), Lower(Strip(pd.name)))
    ELSE cid

CardFor(pd, cat) ==
    [is_tech_gtin |-> TRUE,
     tnved |-> TnvedForCard(pd.tnved, cat),
     brand |-> BrandOf(pd),
     good_name |-> pd.name,
     moderation |-> 0,
     categories |-> <<cat>>,
     good_attrs |-> GoodAttrs(pd)]

create_card_data(pd, cid) == CardFor(pd, CardCategory(pd, cid))

\* a memo after the keys asked have been looked up: the entries it had, and
\* for a new key the answer the body gives now
MemoCats(asked) ==
    [k \in DOMAIN catsCache \cup asked |-> get_categories_by_tnved(k)]

MemoInfo(asked) ==
    [k \in DOMAIN infoCache \cup asked |-> get_category_by_id(k)]

(***************************************************************************)
(* nk_api: presets and validation                                          *)
(***************************************************************************)

\* the body of get_color_preset: the preset of attribute 36 in upper case,
\* the empty set when the registry does not answer
RegistryColors == {Upper(v) : v \in registry.colors}

\* get_color_preset reading the registry at every call
get_color_preset_uncached == RegistryColors

\* @cache get_color_preset
get_color_preset == IF colorCache # <<>> THEN colorCache[1] ELSE RegistryColors

\* the body of get_kind_preset
RegistryKinds(cid) ==
    IF cid \in DOMAIN registry.kinds
    THEN {Upper(v) : v \in registry.kinds[cid]}
    ELSE {}

\* the category whose attributes get_color_preset asks for
COLOR_PRESET_CAT_ID == 30933

\* the registry request the body of get_color_preset makes; none when the
\* memo has the preset
ColorFetches ==
    IF colorCache # <<>> THEN <<>>
    ELSE <<[cat_id |-> COLOR_PRESET_CAT_ID, attr_id |-> ATTR_COLOR]>>

\* get_kind_preset without its memo
get_kind_preset_uncached(cid) == RegistryKinds(cid)

\* @cache get_kind_preset
get_kind_preset(cid) ==
    IF cid \in DOMAIN kindCache THEN kindCache[cid] ELSE RegistryKinds(cid)

MemoKinds(asked) ==
    [k \in DOMAIN kindCache \cup asked |-> get_kind_preset(k)]

\* validate_color(...)[0]
validate_color(color_value) ==
    color_value # EMPTY /\ Upper(color_value) \in get_color_preset

\* validate_product_kind(...)[0]
validate_product_kind(kind_value, cid) ==
    kind_value # EMPTY /\ cid # None /\ Upper(kind_value) \in get_kind_preset(cid)

\* the preset validate_product_kind would return if it looked the vocabulary
\* up whatever its arguments are
KindPresetFor_nocheck(kind_value, cid) == get_kind_preset(cid)

\* validate_product_kind(...)[1]
KindPresetFor(kind_value, cid) ==
    IF kind_value = EMPTY \/ cid = None THEN {} ELSE get_kind_preset(cid)

\* the registry request the body of get_kind_preset makes
KindFetches(cid) ==
    IF cid \in DOMAIN kindCache THEN <<>>
    ELSE <<[cat_id |-> cid, attr_id |-> ATTR_KIND]>>

\* validate_color(color_value): (is_valid, preset)
ValidateColorResult(color_value) ==
    IF color_value = EMPTY THEN <<FALSE, {}>>
    ELSE <<validate_color(color_value), get_color_preset>>

\* validate_product_kind(kind_value, cat_id): (is_valid, preset)
ValidateKindResult(kind_value, cid) ==
    <<validate_product_kind(kind_value, cid), KindPresetFor(kind_value, cid)>>

(***************************************************************************)
(* app.MoySkladAPI.extract_item_data_with_inheritance                      *)
(***************************************************************************)

\* config.CUSTOM_ATTRIBUTES: the names of the custom attributes
\* "Состав"
A_composition == <<1057, 1086, 1089, 1090, 1072, 1074>>
\* "Разрешительные документы"
A_permit_docs == <<1056, 1072, 1079, 1088, 1077, 1096, 1080, 1090, 1077, 1083, 1100, 1085, 1099, 1077, 32, 1076, 1086, 1082, 1091, 1084, 1077, 1085, 1090, 1099>>
\* "Бренд НК"
A_brand_nk == <<1041, 1088, 1077, 1085, 1076, 32, 1053, 1050>>
\* "Вид товара"
A_product_type == <<1042, 1080, 1076, 32, 1090, 1086, 1074, 1072, 1088, 1072>>
\* "Цвет"
A_color == <<1062, 1074, 1077, 1090>>
\* "Размер"
A_size == <<1056, 1072, 1079, 1084, 1077, 1088>>

\* the attribute names written in the code
\* "Целевой пол"
A_target_gender == <<1062, 1077, 1083, 1077, 1074, 1086, 1081, 32, 1087, 1086, 1083>>
\* "Вид размера"
A_size_type == <<1042, 1080, 1076, 32, 1088, 1072, 1079, 1084, 1077, 1088, 1072>>
\* "Категория"
A_category == <<1050, 1072, 1090, 1077, 1075, 1086, 1088, 1080, 1103>>

\* "Да"
S_YES == <<1044, 1072>>
\* "Нет"
S_NO == <<1053, 1077, 1090>>
\* "None"
S_None == <<78, 111, 110, 101>>
\* "nan"
S_nan == <<110, 97, 110>>
\* "True"
S_True == <<84, 114, 117, 101>>

\* config.CHARACTERISTICS['color']: "цвет", "color"
ColorKeywords == {<<1094, 1074, 1077, 1090>>, <<99, 111, 108, 111, 114>>}

\* config.CHARACTERISTICS['size']: "размер", "size"
SizeKeywords == {<<1088, 1072, 1079, 1084, 1077, 1088>>, <<115, 105, 122, 101>>}

\* config.CATEGORIES_WITH_FULL_TNVED
CATEGORIES_WITH_FULL_TNVED == {CAT_SEWN_A, CAT_SEWN_B}

\* config.TNVED_DETAILED_ATTR_ID
TNVED_DETAILED_ATTR_ID == 13933

\* the literal default category of the kind validation
DEFAULT_CAT_ID == 31326

\* the values of the inventory's JSON: a string, a boolean, a reference
\* object with a display name, a category object with a cat_id, null
Str(s) == [t |-> "str", s |-> s]

Bool(b) == [t |-> "bool", b |-> b]

Ref(n) == [t |-> "ref", s |-> n]

CatRef(c) == [t |-> "cat", cat_id |-> c]

Null == [t |-> "null"]

\* the value of a custom attribute as a string: the display name of a
\* reference, "Да"/"Нет" for a boolean, '' for a falsy value
Coerce(v) ==
    CASE v.t = "ref" -> v.s
      [] v.t = "bool" -> (IF v.b THEN S_YES ELSE S_NO)
      [] v.t = "str" -> v.s
      [] OTHER -> EMPTY

\* the value of a characteristic as a string: no word for a boolean
CharValue(v) ==
    CASE v.t = "ref" -> v.s
      [] v.t = "bool" -> (IF v.b THEN S_True ELSE EMPTY)
      [] v.t = "str" -> v.s
      [] OTHER -> EMPTY

\* str(value) of a tariff attribute with a truthy value
TnvedValue(v) ==
    CASE v.t = "str" -> v.s
      [] v.t = "bool" -> (IF v.b THEN S_True ELSE EMPTY)
      [] OTHER -> EMPTY

\* the record that stands for no '_parent_product' key
NoParent ==
    [present |-> FALSE, name |-> EMPTY, article |-> EMPTY, tnved |-> EMPTY,
     categories |-> <<>>, attributes |-> <<>>]

\* current_attributes / parent_attributes: name -> coerced value, the last
\* attribute of a name wins
AttributesOf(attrs) ==
    [n \in {attrs[i].name : i \in 1..Len(attrs)} |->
        Coerce(attrs[SetMax({i \in 1..Len(attrs) : attrs[i].name = n})].value)]

\* the item is a variant that carries its parent product
HasOtherParent(it) == it.type = "variant" /\ it.parent.present

\* parent_item is set: the linked parent, or the product itself
HasParentItem(it) == HasOtherParent(it) \/ it.type = "product"

ParentAttributes(it) ==
    IF HasOtherParent(it) THEN AttributesOf(it.parent.attributes) ELSE <<>>

\* the variant's value when it is neither empty nor a placeholder token, else
\* the parent's, else ''
Inherit_usable(cur, par, key) ==
    IF key \in DOMAIN cur /\ cur[key] \notin {EMPTY, S_None, S_nan, S_NO} THEN cur[key]
    ELSE IF key \in DOMAIN par THEN par[key]
    ELSE EMPTY

\* the variant's value when it is not empty, else the parent's, else ''
Inherit(cur, par, key) ==
    IF key \in DOMAIN cur /\ cur[key] # EMPTY THEN cur[key]
    ELSE IF key \in DOMAIN par THEN par[key]
    ELSE EMPTY

ArticleOf(it) ==
    IF it.article = EMPTY /\ HasOtherParent(it) THEN it.parent.article
    ELSE it.article

\* the characteristics whose lowered name holds a key word and whose value
\* is truthy
Matching(chars, keywords) ==
    {i \in 1..Len(chars) :
        /\ HasAny(keywords, Lower(chars[i].name))
        /\ CharValue(chars[i].value) # EMPTY}

\* the value of the first such characteristic, '' when there is none
FromCharacteristics(chars, keywords) ==
    IF Matching(chars, keywords) = {} THEN EMPTY
    ELSE CharValue(chars[SetMin(Matching(chars, keywords))].value)

\* color and size: the characteristics first, then the attributes
FromCharsOrAttrs(it, cur, par, keywords, key) ==
    IF FromCharacteristics(it.characteristics, keywords) # EMPTY
    THEN FromCharacteristics(it.characteristics, keywords)
    ELSE Inherit(cur, par, key)

\* all_attributes of extract_tnved: the item's, then the linked parent's
AllAttributes(it) ==
    it.attributes \o (IF HasOtherParent(it) THEN it.parent.attributes ELSE <<>>)

\* the category ids extract_tnved collects: the item's, the parent's, and
\* those of the attributes named "Категория"
CategoryAttrIds(attrs) ==
    {attrs[i].value.cat_id : i \in {j \in 1..Len(attrs) :
        /\ attrs[j].name = A_category
        /\ attrs[j].value.t = "cat"
        /\ attrs[j].value.cat_id # None}}

CategoryIdsOf(it) ==
    {it.categories[i] : i \in 1..Len(it.categories)}
    \cup (IF HasOtherParent(it)
          THEN {it.parent.categories[i] : i \in 1..Len(it.parent.categories)}
          ELSE {})
    \cup CategoryAttrIds(AllAttributes(it))

\* the attributes of the id whose value is truthy and not 'None'
TariffAttrs(attrs, id) ==
    {i \in 1..Len(attrs) :
        /\ attrs[i].attr_id = id
        /\ TnvedValue(attrs[i].value) \notin {EMPTY, S_None}}

\* the value of the first of them, '' when there is none
FirstTariffAttr(attrs, id) ==
    IF TariffAttrs(attrs, id) = {} THEN EMPTY
    ELSE TnvedValue(attrs[SetMin(TariffAttrs(attrs, id))].value)

\* item.get('tnved') or parent_item.get('tnved')
ItemTnved(it) ==
    IF it.tnved # EMPTY THEN it.tnved
    ELSE IF HasOtherParent(it) THEN it.parent.tnved
    ELSE EMPTY

\* the tariff code read from the item's own field in both regimes
extract_tnved_field_first(it) ==
    IF ItemTnved(it) # EMPTY THEN ItemTnved(it)
    ELSE FirstTariffAttr(AllAttributes(it), ATTR_TNVED_GROUP)

extract_tnved(it) ==
    IF CategoryIdsOf(it) \cap CATEGORIES_WITH_FULL_TNVED # {}
    THEN FirstTariffAttr(AllAttributes(it), TNVED_DETAILED_ATTR_ID)
    ELSE IF ItemTnved(it) # EMPTY THEN ItemTnved(it)
    ELSE FirstTariffAttr(AllAttributes(it), ATTR_TNVED_GROUP)

\* the record before the final pass
RawFields(it, cur, par) ==
    [name |-> it.name,
     article |-> ArticleOf(it),
     composition |-> Inherit(cur, par, A_composition),
     permit_docs |-> Inherit(cur, par, A_permit_docs),
     brand_nk |-> Inherit(cur, par, A_brand_nk),
     color |-> FromCharsOrAttrs(it, cur, par, ColorKeywords, A_color),
     size |-> FromCharsOrAttrs(it, cur, par, SizeKeywords, A_size),
     product_type |-> Inherit(cur, par, A_product_type),
     tnved |-> extract_tnved(it),
     target_gender |-> Inherit(cur, par, A_target_gender),
     size_type |-> Inherit(cur, par, A_size_type),
     item_type |-> it.type,
     color_valid |-> FALSE,
     color_suggestions |-> <<>>,
     product_type_valid |-> FALSE,
     product_type_suggestions |-> <<>>]

\* the tokens the final pass clears
EmptyTokens == {S_None, EMPTY, S_nan, S_NO}

Clear(v) == IF v \in EmptyTokens THEN EMPTY ELSE v

\* the final pass over every text field, the brand included
Cleaned_all(d) ==
    [d EXCEPT !.name = Clear(@), !.article = Clear(@), !.composition = Clear(@),
              !.permit_docs = Clear(@), !.color = Clear(@), !.size = Clear(@),
              !.product_type = Clear(@), !.tnved = Clear(@),
              !.size_type = Clear(@), !.target_gender = Clear(@),
              !.brand_nk = Clear(@)]

\* the final pass: the keys of the list, which has no 'brand_nk'
Cleaned(d) ==
    [d EXCEPT !.name = Clear(@), !.article = Clear(@), !.composition = Clear(@),
              !.permit_docs = Clear(@), !.color = Clear(@), !.size = Clear(@),
              !.product_type = Clear(@), !.tnved = Clear(@),
              !.size_type = Clear(@), !.target_gender = Clear(@)]

\* the fields of the record, before the validation
ExtractedFields(it) ==
    Cleaned(RawFields(it, AttributesOf(it.attributes), ParentAttributes(it)))

\* the category the product kind is validated in
KindCategory(d) ==
    IF d.tnved # EMPTY THEN determine_category_for_tnved(d.tnved)
    ELSE DEFAULT_CAT_ID

\* the similarity threshold the extractor passes, in tenths
ExtractThreshold == 6

ColorSuggestions(d) ==
    IF d.color # EMPTY /\ ~validate_color(d.color)
    THEN find_similar_values(d.color, get_color_preset, ExtractThreshold)
    ELSE <<>>

KindSuggestions(d) ==
    IF d.product_type # EMPTY /\ ~validate_product_kind(d.product_type, KindCategory(d))
    THEN find_similar_values(d.product_type,
                             KindPresetFor(d.product_type, KindCategory(d)),
                             ExtractThreshold)
    ELSE <<>>

\* the validation of the color and of the product kind
Validated(d) ==
    [d EXCEPT !.color_valid = validate_color(d.color),
              !.color_suggestions = ColorSuggestions(d),
              !.product_type_valid =
                  validate_product_kind(d.product_type, KindCategory(d)),
              !.product_type_suggestions = KindSuggestions(d)]

extract_item_data_with_inheritance(it) == Validated(ExtractedFields(it))

\* the memos after the call
ColorMemoAfter(d) ==
    IF d.color # EMPTY THEN <<get_color_preset>> ELSE colorCache

KindMemoAfter(d) ==
    IF d.product_type # EMPTY THEN MemoKinds({KindCategory(d)}) ELSE kindCache

CatsMemoAfter(d) ==
    IF d.product_type # EMPTY /\ d.tnved # EMPTY
    THEN MemoCats(CodesAskedForTnved(d.tnved))
    ELSE catsCache

(***************************************************************************)
(* app: the submit-one-product request                                     *)
(***************************************************************************)

\* the fields a request may change
EditableFields == {"color", "product_type", "size"}

\* apply_user_changes(...)[0]: a change is applied when its field is one of
\* the three and its value is truthy
\* the changes of a request that are applied
AppliedChanges(uc) == {f \in DOMAIN uc \cap EditableFields : uc[f] # EMPTY}

\* apply_user_changes applying every change that has a value, whatever its
\* field is
apply_user_changes_anyfield(d, uc) ==
    [f \in DOMAIN d \cup {g \in DOMAIN uc : uc[g] # EMPTY} |->
        IF f \in DOMAIN uc /\ uc[f] # EMPTY THEN uc[f] ELSE d[f]]

apply_user_changes(d, uc) ==
    [f \in DOMAIN d \cup AppliedChanges(uc) |->
        IF f \in AppliedChanges(uc) THEN uc[f] ELSE d[f]]

\* the required-field check that looks at the name only
RequiredFieldsError_nameonly(d) == IF d.name = EMPTY THEN "no_name" ELSE "ok"

\* the required-field check of send_product_to_nk
RequiredFieldsError(d) ==
    IF d.name = EMPTY THEN "no_name"
    ELSE IF d.tnved = EMPTY THEN "no_tnved"
    ELSE "ok"

\* n outbound calls of a kind
Repeat(call, n) == [i \in 1..n |-> call]

\* the registry reads of one extraction: the color preset, the categories of
\* the tariff code and the kind preset, each when it is not remembered
ExtractCalls(d) ==
    (IF d.color # EMPTY /\ colorCache = <<>> THEN <<"nk_attributes">> ELSE <<>>)
    \o (IF d.product_type # EMPTY /\ d.tnved # EMPTY
        THEN Repeat("nk_categories",
                    Cardinality(CodesAskedForTnved(d.tnved) \ DOMAIN catsCache))
        ELSE <<>>)
    \o (IF d.product_type # EMPTY /\ KindCategory(d) \notin DOMAIN kindCache
        THEN <<"nk_attributes">> ELSE <<>>)

\* the registry reads of building a card without a category id
CardCalls(pd) ==
    Repeat("nk_categories",
           Cardinality(IdsAsked(Strip(pd.tnved), Strip(pd.product_type),
                                Lower(Strip(pd.name))) \ DOMAIN infoCache)
           + Cardinality(CodesAsked(Strip(pd.tnved), Strip(pd.product_type),
                                    Lower(Strip(pd.name))) \ DOMAIN catsCache))

(***************************************************************************)
(* Inputs of the category resolver                                         *)
(***************************************************************************)

\* "Брюки, бриджи, шорты"
N_TROUSERS == <<1041, 1088, 1102, 1082, 1080, 44, 32, 1073, 1088, 1080, 1076, 1078, 1080, 44, 32, 1096, 1086, 1088, 1090, 1099>>
\* "Юбки и юбки-брюки"
N_SKIRTS == <<1070, 1073, 1082, 1080, 32, 1080, 32, 1102, 1073, 1082, 1080, 45, 1073, 1088, 1102, 1082, 1080>>
\* "Рубашки, блузки, блузы и блузоны"
N_SHIRTS_OLD == <<1056, 1091, 1073, 1072, 1096, 1082, 1080, 44, 32, 1073, 1083, 1091, 1079, 1082, 1080, 44, 32, 1073, 1083, 1091, 1079, 1099, 32, 1080, 32, 1073, 1083, 1091, 1079, 1086, 1085, 1099>>
\* "Блузки и блузы"
N_BLOUSES == <<1041, 1083, 1091, 1079, 1082, 1080, 32, 1080, 32, 1073, 1083, 1091, 1079, 1099>>
\* "Швейные изделия"
N_SEWN == <<1064, 1074, 1077, 1081, 1085, 1099, 1077, 32, 1080, 1079, 1076, 1077, 1083, 1080, 1103>>
\* "брюки"
K_bryuki == <<1073, 1088, 1102, 1082, 1080>>
\* "блузки"
K_bluzki == <<1073, 1083, 1091, 1079, 1082, 1080>>
\* "юбка"
K_yubka == <<1102, 1073, 1082, 1072>>
\* "халат"
K_halat == <<1093, 1072, 1083, 1072, 1090>>
\* " "
K_blank == <<32>>
\* "6204"
T_6204 == <<54, 50, 48, 52>>
\* "6204631800"
T_6204631800 == <<54, 50, 48, 52, 54, 51, 49, 56, 48, 48>>
\* "6204990000"
T_6204990000 == <<54, 50, 48, 52, 57, 57, 48, 48, 48, 48>>
\* "6206"
T_6206 == <<54, 50, 48, 54>>

\* the categories the mapping tables are made of
CategoryPool ==
    {[id |-> CAT_TROUSERS, name |-> N_TROUSERS],
     [id |-> CAT_SKIRTS, name |-> N_SKIRTS],
     [id |-> CAT_SHIRTS_OLD, name |-> N_SHIRTS_OLD],
     [id |-> CAT_BLOUSES, name |-> N_BLOUSES],
     [id |-> CAT_SEWN_B, name |-> N_SEWN]}

\* the longest entry of the mapping table under a group key
MaxCats == 2

\* the lists of at most n distinct members of S
ListsOf(S, n) ==
    UNION {{l \in [1..k -> S] : \A i, j \in 1..k : i # j => l[i] # l[j]} :
              k \in 0..n}

\* a mapping table with entry g under the group key "6204" and entry c under
\* the full code "6204631800"; an empty entry means the key is absent
MakeMapping(g, c) ==
    LET keys == (IF g # <<>> THEN {T_6204} ELSE {})
                \cup (IF c # <<>> THEN {T_6204631800} ELSE {})
    IN  [k \in keys |-> IF k = T_6204 THEN g ELSE c]

MappingTables ==
    {MakeMapping(g, c) : g \in ListsOf(CategoryPool, MaxCats),
                         c \in ListsOf(CategoryPool, 1)}

\* the values config.LOW_PRIORITY_CATS may have
LowPriorityChoices == SUBSET {CAT_SEWN_B, CAT_TROUSERS, CAT_BLOUSES}

TariffCodes == {EMPTY, T_6204, T_6204631800, T_6204990000, T_6206}

ProductKinds == {EMPTY, K_bryuki, K_bluzki, K_yubka, K_halat, K_blank}

\* the vocabulary words presets are drawn from
Vocabulary ==
    {W_KRASNYJ, W_SINIJ, W_KRASNOVATYJ, W_KRASN, W_TEMNO_KRASNYJ,
     W_SVETLO_KRASNYJ, W_JARKO_KRASNYJ, W_KRASNYJ_MAK}

\* the values looked up
LookupValues == {EMPTY, W_KRASNYJ, W_Krasnyj, W_SINIJ, W_BELYJ, W_KRASN}

\* thresholds, in tenths (0.6 is the one every caller passes)
Thresholds == {6, 9}

(***************************************************************************)
(* Inputs of the card builder                                              *)
(***************************************************************************)

\* "Платье женское"
NM_DRESS == <<1055, 1083, 1072, 1090, 1100, 1077, 32, 1078, 1077, 1085, 1089, 1082, 1086, 1077>>
\* "Брюки мужские"
NM_TROUSERS == <<1041, 1088, 1102, 1082, 1080, 32, 1084, 1091, 1078, 1089, 1082, 1080, 1077>>
\* "Шорты"
NM_SHORTS == <<1064, 1086, 1088, 1090, 1099>>
\* "M"
V_M == <<77>>
\* "Хлопок 100%"
V_cotton == <<1061, 1083, 1086, 1087, 1086, 1082, 32, 49, 48, 48, 37>>
\* "A-1"
V_art == <<65, 45, 49>>
\* "ЕАЭС N RU Д-RU.РА01"
V_docs == <<1045, 1040, 1069, 1057, 32, 78, 32, 82, 85, 32, 1044, 45, 82, 85, 46, 1056, 1040, 48, 49>>
\* "Acme"
V_brand == <<65, 99, 109, 101>>
\* "красный"
V_red == <<1082, 1088, 1072, 1089, 1085, 1099, 1081>>
\* "Женский"
TG_female == <<1046, 1077, 1085, 1089, 1082, 1080, 1081>>
\* "Взрослый"
TG_other == <<1042, 1079, 1088, 1086, 1089, 1083, 1099, 1081>>
\* "620463"
T_620463 == <<54, 50, 48, 52, 54, 51>>
\* " 6204"
T_6204_sp == <<32, 54, 50, 48, 52>>

\* the product data: every key is present and holds a string, as in the
\* output of the extractor
ProductDatas ==
    [name : {EMPTY, NM_DRESS, NM_TROUSERS, NM_SHORTS},
     tnved : {EMPTY, T_6204, T_6204631800, T_620463, T_6204_sp},
     product_type : {EMPTY, K_bryuki},
     color : {EMPTY, V_red},
     size : {EMPTY, V_M},
     composition : {EMPTY, V_cotton},
     article : {EMPTY, V_art},
     permit_docs : {EMPTY, V_docs},
     brand_nk : {EMPTY, V_brand},
     target_gender : {EMPTY, TG_female}]

\* the product data of the calls that resolve the category: the fields the
\* resolution does not read are all empty or all filled
ResolvedDatas ==
    {pd \in ProductDatas :
        \/ /\ pd.color = EMPTY /\ pd.size = EMPTY /\ pd.composition = EMPTY
           /\ pd.article = EMPTY /\ pd.permit_docs = EMPTY
        \/ /\ pd.color # EMPTY /\ pd.size # EMPTY /\ pd.composition # EMPTY
           /\ pd.article # EMPTY /\ pd.permit_docs # EMPTY}

\* the category ids a caller passes; None when it passes none
CardCategoryArgs == {None, CAT_SEWN_A, CAT_TROUSERS}

\* the mapping tables of the card builder's runs
CardMappings ==
    {MakeMapping(<<>>, <<>>),
     MakeMapping(<<[id |-> CAT_SEWN_B, name |-> N_SEWN],
                   [id |-> CAT_TROUSERS, name |-> N_TROUSERS]>>, <<>>),
     MakeMapping(<<[id |-> CAT_SHIRTS_OLD, name |-> N_SHIRTS_OLD]>>, <<>>)}

CardLowPriority == {{}, {CAT_SEWN_B}}

\* the registry does not answer
RegistryDown == [info |-> <<>>, cats |-> <<>>, colors |-> {}, kinds |-> <<>>]

\* the registry answers: trousers are inactive, the tariff group has the
\* deny-listed category and the clothes category
RegistryUp ==
    [info |-> (CAT_TROUSERS :> "inactive" @@ CAT_SEWN_B :> "active"),
     cats |-> (T_6204 :> <<[cat_id |-> CAT_SHIRTS_OLD, category_active |-> TRUE],
                           [cat_id |-> 30933, category_active |-> TRUE]>>),
     colors |-> {W_Krasnyj, W_SINIJ, W_TEMNO_KRASNYJ},
     kinds |-> (CAT_TROUSERS :> {K_bryuki} @@ DEFAULT_CAT_ID :> {K_bryuki, K_halat})]

RegistryStates == {RegistryDown, RegistryUp}

(***************************************************************************)
(* Inputs of the extractor                                                 *)
(***************************************************************************)

\* " Acme "
V_padded == <<32, 65, 99, 109, 101, 32>>
\* "Базовый"
V_parent == <<1041, 1072, 1079, 1086, 1074, 1099, 1081>>
\* "P-1"
V_parent_art == <<80, 45, 49>>
\* "синий"
V_blue == <<1089, 1080, 1085, 1080, 1081>>
\* "белый"
V_white == <<1073, 1077, 1083, 1099, 1081>>
\* "Цвет ткани"
CH_color == <<1062, 1074, 1077, 1090, 32, 1090, 1082, 1072, 1085, 1080>>
\* "COLOR"
CH_COLOR == <<67, 79, 76, 79, 82>>
\* "Размер одежды"
CH_size == <<1056, 1072, 1079, 1084, 1077, 1088, 32, 1086, 1076, 1077, 1078, 1076, 1099>>
\* "Длина"
CH_length == <<1044, 1083, 1080, 1085, 1072>>
\* "L"
V_L == <<76>>

\* the registry answers with other presets
RegistryOther ==
    [info |-> <<>>,
     cats |-> (T_6206 :> <<[cat_id |-> CAT_BLOUSES, category_active |-> TRUE]>>),
     colors |-> {W_SINIJ, W_KRASNYJ_MAK},
     kinds |-> (DEFAULT_CAT_ID :> {K_halat} @@ CAT_BLOUSES :> {K_bluzki})]

ExtractRegistries == {RegistryDown, RegistryUp, RegistryOther}

ExtractMappings ==
    {MakeMapping(<<>>, <<>>),
     MakeMapping(<<[id |-> CAT_TROUSERS, name |-> N_TROUSERS],
                   [id |-> CAT_SKIRTS, name |-> N_SKIRTS]>>, <<>>)}

\* a custom attribute, and an attribute known by its id
ItemAttr(n, v) == [name |-> n, value |-> v, attr_id |-> None]

IdAttr(id, v) == [name |-> EMPTY, value |-> v, attr_id |-> id]

\* stands for an attribute the record does not have
Absent == [t |-> "absent"]

AttrList(n, v) == IF v = Absent THEN <<>> ELSE <<ItemAttr(n, v)>>

MakeParent(art, code, cats, attrs) ==
    [present |-> TRUE, name |-> NM_DRESS, article |-> art, tnved |-> code,
     categories |-> cats, attributes |-> attrs]

MakeItem(ty, art, code, cats, attrs, chars, par) ==
    [type |-> ty, name |-> NM_DRESS, article |-> art, tnved |-> code,
     categories |-> cats, attributes |-> attrs, characteristics |-> chars,
     parent |-> par]

AttrNames ==
    {A_composition, A_permit_docs, A_brand_nk, A_product_type, A_color, A_size,
     A_target_gender, A_size_type}

VariantValues ==
    {Absent, Null, Str(EMPTY), Str(V_red), Str(K_bryuki), Str(S_None),
     Str(V_padded), Bool(FALSE), Bool(TRUE), Ref(W_KRASN)}

ParentValues == {Absent, Str(EMPTY), Str(V_parent), Bool(FALSE), Ref(V_white)}

ItemTypes == {"product", "variant", "service", "unknown"}

\* variants with one attribute, on the variant, on its parent, or on both
InheritingItems ==
    {MakeItem("variant", EMPTY, code, <<>>, AttrList(n, v), <<>>,
              MakeParent(EMPTY, EMPTY, <<>>, AttrList(n, w))) :
        n \in AttrNames, v \in VariantValues, w \in ParentValues,
        code \in {EMPTY, T_6204}}

\* records without a linked parent
LoneItems ==
    {MakeItem(ty, EMPTY, code, <<>>, AttrList(n, v), <<>>, NoParent) :
        ty \in ItemTypes, n \in AttrNames, v \in VariantValues \ {Null},
        code \in {EMPTY, T_6204}}

ArticleItems ==
    {MakeItem(ty, art, EMPTY, <<>>, <<>>, <<>>, par) :
        ty \in {"variant", "product"},
        art \in {EMPTY, V_art, S_None},
        par \in {NoParent} \cup {MakeParent(a, EMPTY, <<>>, <<>>) :
                                   a \in {EMPTY, V_parent_art, S_nan}}}

CharacteristicPool ==
    {[name |-> CH_color, value |-> Str(V_blue)],
     [name |-> CH_COLOR, value |-> Ref(V_red)],
     [name |-> CH_size, value |-> Str(V_L)],
     [name |-> CH_color, value |-> Str(EMPTY)],
     [name |-> CH_length, value |-> Bool(TRUE)]}

\* the longest list of characteristics
MaxChars == 2

CharacteristicItems ==
    {MakeItem("variant", EMPTY, EMPTY, <<>>, attrs, chars,
              MakeParent(EMPTY, EMPTY, <<>>, pattrs)) :
        chars \in ListsOf(CharacteristicPool, MaxChars),
        attrs \in {<<>>, <<ItemAttr(A_color, Str(V_red)), ItemAttr(A_size, Str(V_M))>>},
        pattrs \in {<<>>, <<ItemAttr(A_color, Str(V_white))>>}}

TariffAttrPool ==
    {IdAttr(TNVED_DETAILED_ATTR_ID, Str(T_6204631800)),
     IdAttr(TNVED_DETAILED_ATTR_ID, Str(S_None)),
     IdAttr(ATTR_TNVED_GROUP, Str(T_6204)),
     ItemAttr(A_category, CatRef(CAT_SEWN_B))}

\* the longest list of tariff attributes
MaxTariffAttrs == 2

TariffItems ==
    {MakeItem("variant", EMPTY, code, cats,
              <<ItemAttr(A_product_type, Str(K_bryuki))>> \o attrs, <<>>,
              MakeParent(EMPTY, pcode, pcats, <<>>)) :
        code \in {EMPTY, T_6204}, cats \in {<<>>, <<CAT_SEWN_A>>, <<CAT_TROUSERS>>},
        attrs \in ListsOf(TariffAttrPool, MaxTariffAttrs),
        pcode \in {EMPTY, T_6206}, pcats \in {<<>>, <<CAT_SEWN_B>>}}

Items ==
    InheritingItems \cup LoneItems \cup ArticleItems \cup CharacteristicItems
    \cup TariffItems

(***************************************************************************)
(* Inputs of the submit-one-product request                                *)
(***************************************************************************)

\* the record at the index of the request
SendItems ==
    {MakeItem("product", EMPTY, code, <<>>, attrs, <<>>, NoParent) :
        code \in {EMPTY, T_6204},
        attrs \in {<<>>, <<ItemAttr(A_color, Str(V_blue)),
                           ItemAttr(A_product_type, Str(K_bryuki))>>}}
    \cup {[MakeItem("product", EMPTY, code, <<>>, <<>>, <<>>, NoParent)
              EXCEPT !.name = EMPTY] : code \in {EMPTY, T_6204}}

\* the changes a request carries: none, a color, a tariff code (not an
\* editable field), an empty size
UserChanges ==
    {<<>>, [color |-> V_red], [tnved |-> T_6204], [size |-> EMPTY]}

\* the most pages the inventory has
MaxPages == 2

\* the calls that read the inventory or the registry's metadata
ReadCalls == {"ms_context", "ms_assortment", "nk_attributes", "nk_categories"}

(***************************************************************************)
(* Variables an operation does not use                                     *)
(***************************************************************************)

IdleSimilar ==
    /\ value = EMPTY
    /\ preset = {}
    /\ threshold = 6
    /\ similars = <<>>

IdleConfig ==
    /\ mapping = <<>>
    /\ lowPriority = {}

IdleCategory ==
    /\ tnved = EMPTY
    /\ product_type = EMPTY
    /\ chosen = None

IdleRegistry ==
    /\ registry = RegistryDown
    /\ infoCache = <<>>
    /\ catsCache = <<>>
    /\ colorCache = <<>>
    /\ kindCache = <<>>

IdleCard ==
    /\ product_data = <<>>
    /\ card_cat_id = None
    /\ card = <<>>

IdleExtract ==
    /\ item = <<>>
    /\ extracted = <<>>

IdleSend ==
    /\ user_changes = <<>>
    /\ pages = 0
    /\ fetchedRows = FALSE
    /\ calls = <<>>
    /\ response = ""

\* no call has returned yet
NoResult == <<"no result">>

IdleCall == result = NoResult /\ args = <<>>

IdleThreads == threads = <<>> /\ cacheWrites = <<>>

IdleAssortment == inventory = 0 /\ all_items = <<>>

IdleBarcodes == barcodes = <<>> /\ existing_barcodes = <<>>

(***************************************************************************)
(* find_similar_values as an operation                                     *)
(***************************************************************************)

InitSimilar ==
    /\ pc = "similar_call"
    /\ value \in LookupValues
    /\ preset \in SUBSET Vocabulary
    /\ threshold \in Thresholds
    /\ similars = <<>>
    /\ IdleConfig /\ IdleCategory /\ IdleRegistry /\ IdleCard /\ IdleExtract
    /\ IdleSend
    /\ IdleCall /\ IdleThreads /\ IdleAssortment
    /\ IdleBarcodes

FindSimilarValues ==
    /\ pc = "similar_call"
    /\ similars' = find_similar_values(value, preset, threshold)
    /\ pc' = "similar_done"
    /\ UNCHANGED <<barcodeVars, assortmentVars, threadVars, callVars, value, preset, threshold,
                   configVars, categoryVars, registryVars, cardVars, extractVars,
                   sendVars>>

NextSimilar == FindSimilarValues

SpecSimilar == InitSimilar /\ [][NextSimilar]_vars

(***************************************************************************)
(* choose_category as an operation                                         *)
(***************************************************************************)

InitCategory ==
    /\ pc = "category_call"
    /\ mapping \in MappingTables
    /\ lowPriority \in LowPriorityChoices
    /\ tnved \in TariffCodes
    /\ product_type \in ProductKinds
    /\ chosen = None
    /\ IdleSimilar /\ IdleRegistry /\ IdleCard /\ IdleExtract /\ IdleSend
    /\ IdleCall /\ IdleThreads /\ IdleAssortment
    /\ IdleBarcodes

ChooseCategory ==
    /\ pc = "category_call"
    /\ chosen' = choose_category(mapping, lowPriority, tnved, product_type)
    /\ pc' = "category_done"
    /\ UNCHANGED <<barcodeVars, assortmentVars, threadVars, callVars, tnved, product_type,
                   similarVars, configVars, registryVars, cardVars, extractVars,
                   sendVars>>

NextCategory == ChooseCategory

SpecCategory == InitCategory /\ [][NextCategory]_vars

(***************************************************************************)
(* create_card_data as an operation                                        *)
(***************************************************************************)

\* a call with a category id reads neither the table nor the registry
InitCardWithCategory ==
    /\ card_cat_id \in CardCategoryArgs \ {None}
    /\ product_data \in ProductDatas
    /\ IdleConfig
    /\ registry = RegistryDown
    /\ IdleBarcodes

InitCardResolving ==
    /\ card_cat_id = None
    /\ product_data \in ResolvedDatas
    /\ mapping \in CardMappings
    /\ lowPriority \in CardLowPriority
    /\ registry \in RegistryStates
    /\ IdleBarcodes

InitCard ==
    /\ pc = "card_call"
    /\ InitCardWithCategory \/ InitCardResolving
    /\ infoCache = <<>>
    /\ catsCache = <<>>
    /\ colorCache = <<>>
    /\ kindCache = <<>>
    /\ card = <<>>
    /\ IdleSimilar /\ IdleCategory /\ IdleExtract /\ IdleSend
    /\ IdleCall /\ IdleThreads /\ IdleAssortment
    /\ IdleBarcodes

\* the call with a category id: no lookup
CreateCardDataWithCategory ==
    /\ pc = "card_call"
    /\ card_cat_id # None
    /\ card' = create_card_data(product_data, card_cat_id)
    /\ pc' = "card_done"
    /\ UNCHANGED <<barcodeVars, assortmentVars, threadVars, callVars, product_data, card_cat_id,
                   similarVars, configVars, categoryVars, registryVars, extractVars,
                   sendVars>>

\* the call without one: the category is resolved, and the lookups fill the
\* memos
CreateCardDataResolving ==
    /\ pc = "card_call"
    /\ card_cat_id = None
    /\ card' = create_card_data(product_data, None)
    /\ infoCache' = MemoInfo(IdsAsked(Strip(product_data.tnved),
                                      Strip(product_data.product_type),
                                      Lower(Strip(product_data.name))))
    /\ catsCache' = MemoCats(CodesAsked(Strip(product_data.tnved),
                                        Strip(product_data.product_type),
                                        Lower(Strip(product_data.name))))
    /\ pc' = "card_done"
    /\ UNCHANGED <<barcodeVars, assortmentVars, threadVars, callVars, product_data, card_cat_id, registry, colorCache, kindCache,
                   similarVars, configVars, categoryVars, extractVars, sendVars>>

NextCard == CreateCardDataWithCategory \/ CreateCardDataResolving

SpecCard == InitCard /\ [][NextCard]_vars

(***************************************************************************)
(* extract_item_data_with_inheritance called twice on one record           *)
(***************************************************************************)

InitExtract ==
    /\ pc = "extract_call"
    /\ item \in Items
    /\ extracted = <<>>
    /\ mapping \in ExtractMappings
    /\ lowPriority = {}
    /\ registry \in ExtractRegistries
    /\ infoCache = <<>>
    /\ catsCache = <<>>
    /\ colorCache = <<>>
    /\ kindCache = <<>>
    /\ IdleSimilar /\ IdleCategory /\ IdleCard /\ IdleSend
    /\ IdleCall /\ IdleThreads /\ IdleAssortment
    /\ IdleBarcodes

\* one call: the record is returned, the lookups fill the memos, and the item
\* is left as it was
Extract ==
    /\ pc \in {"extract_call", "extract_again"}
    /\ extracted' = Append(extracted, extract_item_data_with_inheritance(item))
    /\ colorCache' = ColorMemoAfter(ExtractedFields(item))
    /\ kindCache' = KindMemoAfter(ExtractedFields(item))
    /\ catsCache' = CatsMemoAfter(ExtractedFields(item))
    /\ pc' = IF pc = "extract_call" THEN "extract_again" ELSE "extract_done"
    /\ UNCHANGED <<barcodeVars, assortmentVars, threadVars, callVars, item, registry, infoCache,
                   similarVars, configVars, categoryVars, cardVars, sendVars>>

\* between the calls the registry's answers change
RegistryChanges ==
    /\ pc = "extract_again"
    /\ registry' \in ExtractRegistries \ {registry}
    /\ UNCHANGED <<barcodeVars, assortmentVars, threadVars, callVars, pc, infoCache, catsCache, colorCache, kindCache,
                   similarVars, configVars, categoryVars, cardVars, extractVars,
                   sendVars>>

NextExtract == Extract \/ RegistryChanges

SpecExtract == InitExtract /\ [][NextExtract]_vars

(***************************************************************************)
(* extract_tnved as an operation                                           *)
(***************************************************************************)

\* the attributes the tariff code may be read from, usable and placeholder
TnvedAttrPool ==
    {IdAttr(TNVED_DETAILED_ATTR_ID, Str(T_6204631800)),
     IdAttr(TNVED_DETAILED_ATTR_ID, Str(S_None)),
     IdAttr(TNVED_DETAILED_ATTR_ID, Str(EMPTY)),
     IdAttr(ATTR_TNVED_GROUP, Str(T_6204)),
     IdAttr(ATTR_TNVED_GROUP, Str(S_None)),
     ItemAttr(A_category, CatRef(CAT_SEWN_B))}

\* the parents of the items: none, or one with its own field, categories and
\* attributes
TnvedParents ==
    {NoParent}
    \cup {MakeParent(EMPTY, pcode, pcats, pattrs) :
            pcode \in {EMPTY, T_6206},
            pcats \in {<<>>, <<CAT_SEWN_B>>},
            pattrs \in {<<>>,
                        <<IdAttr(TNVED_DETAILED_ATTR_ID, Str(T_6204990000))>>,
                        <<IdAttr(ATTR_TNVED_GROUP, Str(T_6206))>>}}

TnvedItems ==
    {MakeItem("variant", EMPTY, code, cats, attrs, <<>>, par) :
        code \in {EMPTY, T_6204},
        cats \in {<<>>, <<CAT_SEWN_A>>, <<CAT_TROUSERS>>},
        attrs \in ListsOf(TnvedAttrPool, MaxTariffAttrs),
        par \in TnvedParents}

InitTnved ==
    /\ pc = "tnved_call"
    /\ item \in TnvedItems
    /\ extracted = <<>>
    /\ result = NoResult
    /\ args = <<>>
    /\ IdleSimilar /\ IdleConfig /\ IdleCategory /\ IdleRegistry /\ IdleCard
    /\ IdleSend /\ IdleThreads /\ IdleAssortment
    /\ IdleBarcodes

\* extract_tnved(item, item['_parent_product']) returns
ExtractTnved ==
    /\ pc = "tnved_call"
    /\ result' = extract_tnved(item)
    /\ pc' = "tnved_done"
    /\ UNCHANGED <<barcodeVars, assortmentVars, threadVars, args, similarVars, configVars,
                   categoryVars, registryVars, cardVars, extractVars, sendVars>>

NextTnved == ExtractTnved

SpecTnved == InitTnved /\ [][NextTnved]_vars

(***************************************************************************)
(* send_product_to_nk as a request                                         *)
(***************************************************************************)

InitSend ==
    /\ pc = "send_call"
    /\ item \in SendItems
    /\ user_changes \in UserChanges
    /\ mapping \in ExtractMappings
    /\ lowPriority = {}
    /\ registry \in RegistryStates
    /\ infoCache = <<>>
    /\ catsCache = <<>>
    /\ colorCache = <<>>
    /\ kindCache = <<>>
    /\ extracted = <<>>
    /\ pages = 0
    /\ fetchedRows = FALSE
    /\ calls = <<>>
    /\ response = ""
    /\ IdleSimilar /\ IdleCategory /\ IdleCard
    /\ IdleCall /\ IdleThreads /\ IdleAssortment
    /\ IdleBarcodes

\* the request ends with an answer
Answer(r) == response' = r /\ pc' = "send_done"

\* get_all_assortment: the connection test
TestConnection ==
    /\ pc = "send_call"
    /\ calls' = Append(calls, "ms_context")
    /\ \E connected \in BOOLEAN :
          IF connected THEN pc' = "send_fetch" /\ UNCHANGED response
          ELSE Answer("load_failed")
    /\ UNCHANGED <<barcodeVars, assortmentVars, threadVars, callVars, user_changes, pages, fetchedRows, similarVars, configVars,
                   categoryVars, registryVars, cardVars, extractVars>>

\* get_all_assortment: one page; the loop goes on after a full page
GetAssortment ==
    /\ pc = "send_fetch"
    /\ calls' = Append(calls, "ms_assortment")
    /\ pages' = pages + 1
    /\ \E page \in {"none", "short"} \cup (IF pages + 1 < MaxPages THEN {"full"} ELSE {}) :
          /\ fetchedRows' = (fetchedRows \/ page # "none")
          /\ pc' = IF page = "full" THEN "send_fetch" ELSE "send_process"
    /\ UNCHANGED <<barcodeVars, assortmentVars, threadVars, callVars, user_changes, response, similarVars, configVars, categoryVars,
                   registryVars, cardVars, extractVars>>

\* the list is processed and the index looked up; then the record is
\* extracted, the changes are applied and the required fields are checked
ExtractAndCheck ==
    /\ pc = "send_process"
    /\ \E found \in {f \in BOOLEAN : f => fetchedRows} :
          IF ~found
          THEN /\ Answer("not_found")
               /\ UNCHANGED <<calls, extracted, product_data, colorCache, kindCache,
                              catsCache>>
          ELSE /\ extracted' = <<extract_item_data_with_inheritance(item)>>
               /\ product_data' =
                     apply_user_changes(extract_item_data_with_inheritance(item),
                                        user_changes)
               /\ colorCache' = ColorMemoAfter(ExtractedFields(item))
               /\ kindCache' = KindMemoAfter(ExtractedFields(item))
               /\ catsCache' = CatsMemoAfter(ExtractedFields(item))
               /\ calls' = calls \o ExtractCalls(ExtractedFields(item))
               /\ IF RequiredFieldsError(product_data') = "ok"
                  THEN pc' = "send_card" /\ UNCHANGED response
                  ELSE Answer(RequiredFieldsError(product_data'))
    /\ UNCHANGED <<barcodeVars, assortmentVars, threadVars, callVars, item, user_changes, pages, fetchedRows, registry, infoCache,
                   card_cat_id, card, similarVars, configVars, categoryVars>>

\* create_card_data, then the POST of send_card_to_nk
SendCard ==
    /\ pc = "send_card"
    /\ card' = create_card_data(product_data, None)
    /\ infoCache' = MemoInfo(IdsAsked(Strip(product_data.tnved),
                                      Strip(product_data.product_type),
                                      Lower(Strip(product_data.name))))
    /\ catsCache' = MemoCats(CodesAsked(Strip(product_data.tnved),
                                        Strip(product_data.product_type),
                                        Lower(Strip(product_data.name))))
    /\ calls' = (calls \o CardCalls(product_data)) \o <<"nk_feed_post">>
    /\ \E accepted \in BOOLEAN :
          IF accepted THEN pc' = "send_status" /\ UNCHANGED response
          ELSE Answer("send_failed")
    /\ UNCHANGED <<barcodeVars, assortmentVars, threadVars, callVars, product_data, card_cat_id, registry, colorCache, kindCache,
                   user_changes, pages, fetchedRows, similarVars, configVars,
                   categoryVars, extractVars>>

\* check_feed_status, with get_feed_details for a rejected feed
StatusCalls(rejected) ==
    IF rejected THEN <<"nk_feed_status", "nk_feed_details">> ELSE <<"nk_feed_status">>

\* the status check inside send_card_to_nk, whose answer is send_result
FeedStatus ==
    /\ pc = "send_status"
    /\ \E answered \in BOOLEAN, rejected \in BOOLEAN :
          /\ rejected => answered
          /\ calls' = calls \o StatusCalls(rejected)
          /\ IF answered THEN pc' = "send_recheck" /\ UNCHANGED response
             ELSE Answer("send_failed")
    /\ UNCHANGED <<barcodeVars, assortmentVars, threadVars, callVars, user_changes, pages, fetchedRows, similarVars, configVars,
                   categoryVars, registryVars, cardVars, extractVars>>

\* the status check of the handler, which may bring the GTIN
FeedStatusAgain ==
    /\ pc = "send_recheck"
    /\ \E rejected \in BOOLEAN, gtin \in BOOLEAN :
          /\ calls' = calls \o StatusCalls(rejected)
          /\ IF gtin THEN pc' = "send_gtin" /\ UNCHANGED response
             ELSE Answer("sent")
    /\ UNCHANGED <<barcodeVars, assortmentVars, threadVars, callVars, user_changes, pages, fetchedRows, similarVars, configVars,
                   categoryVars, registryVars, cardVars, extractVars>>

\* update_product_gtin: the entity is read, and written unless the read
\* fails or the GTIN is there already
UpdateGtin ==
    /\ pc = "send_gtin"
    /\ \E written \in BOOLEAN :
          calls' = calls \o (IF written THEN <<"ms_entity_get", "ms_entity_put">>
                             ELSE <<"ms_entity_get">>)
    /\ Answer("sent")
    /\ UNCHANGED <<barcodeVars, assortmentVars, threadVars, callVars, user_changes, pages, fetchedRows, similarVars, configVars,
                   categoryVars, registryVars, cardVars, extractVars>>

NextSend ==
    \/ TestConnection
    \/ GetAssortment
    \/ ExtractAndCheck
    \/ SendCard
    \/ FeedStatus
    \/ FeedStatusAgain
    \/ UpdateGtin

SpecSend == InitSend /\ [][NextSend]_vars

(***************************************************************************)
(* determine_gender as an operation                                        *)
(***************************************************************************)

\* "Платье женское"
GN_dress_f == <<1055, 1083, 1072, 1090, 1100, 1077, 32, 1078, 1077, 1085, 1089, 1082, 1086, 1077>>
\* "Брюки мужские"
GN_trousers_m == <<1041, 1088, 1102, 1082, 1080, 32, 1084, 1091, 1078, 1089, 1082, 1080, 1077>>
\* "Women dress"
GN_women == <<87, 111, 109, 101, 110, 32, 100, 114, 101, 115, 115>>
\* "Female shirt"
GN_female == <<70, 101, 109, 97, 108, 101, 32, 115, 104, 105, 114, 116>>
\* "Men jeans"
GN_men == <<77, 101, 110, 32, 106, 101, 97, 110, 115>>
\* "Kids cap"
GN_kids == <<75, 105, 100, 115, 32, 99, 97, 112>>
\* "Шапка детская"
GN_child_ru == <<1064, 1072, 1087, 1082, 1072, 32, 1076, 1077, 1090, 1089, 1082, 1072, 1103>>
\* "Шорты"
GN_shorts == <<1064, 1086, 1088, 1090, 1099>>
\* "Куртка мужская и женская"
GN_both == <<1050, 1091, 1088, 1090, 1082, 1072, 32, 1084, 1091, 1078, 1089, 1082, 1072, 1103, 32, 1080, 32, 1078, 1077, 1085, 1089, 1082, 1072, 1103>>
\* "Женский"
TGV_female == <<1046, 1077, 1085, 1089, 1082, 1080, 1081>>
\* "Мужской"
TGV_male == <<1052, 1091, 1078, 1089, 1082, 1086, 1081>>
\* "Women"
TGV_women == <<87, 111, 109, 101, 110>>
\* "Детский"
TGV_child == <<1044, 1077, 1090, 1089, 1082, 1080, 1081>>
\* "Унисекс"
TGV_unisex == <<1059, 1085, 1080, 1089, 1077, 1082, 1089>>
\* "Взрослый"
TGV_other == <<1042, 1079, 1088, 1086, 1089, 1083, 1099, 1081>>

GenderNames ==
    {EMPTY, GN_dress_f, GN_trousers_m, GN_women, GN_female, GN_men, GN_kids,
     GN_child_ru, GN_shorts, GN_both}

TargetGenders ==
    {EMPTY, TGV_female, TGV_male, TGV_women, TGV_child, TGV_unisex, TGV_other}

InitGender ==
    /\ pc = "gender_call"
    /\ \E n \in GenderNames, g \in TargetGenders :
          product_data = [name |-> n, target_gender |-> g]
    /\ card_cat_id = None
    /\ card = <<>>
    /\ IdleSimilar /\ IdleConfig /\ IdleCategory /\ IdleRegistry /\ IdleExtract
    /\ IdleSend
    /\ IdleCall /\ IdleThreads /\ IdleAssortment
    /\ IdleBarcodes

DetermineGender ==
    /\ pc = "gender_call"
    /\ result' = determine_gender(product_data)
    /\ pc' = "gender_done"
    /\ UNCHANGED <<barcodeVars, assortmentVars, threadVars, args, similarVars, configVars, categoryVars, registryVars, cardVars,
                   extractVars, sendVars>>

NextGender == DetermineGender

SpecGender == InitGender /\ [][NextGender]_vars

(***************************************************************************)
(* validate_color and validate_product_kind, called one after another      *)
(***************************************************************************)

ValidatedColors == {EMPTY, W_Krasnyj, W_BELYJ}

ValidatedKinds == {EMPTY, K_bryuki, K_halat}

ValidatedCategories == {None, DEFAULT_CAT_ID, CAT_TROUSERS}

InitValidate ==
    /\ pc = "validate_idle"
    /\ registry \in ExtractRegistries
    /\ infoCache = <<>>
    /\ catsCache = <<>>
    /\ colorCache = <<>>
    /\ kindCache = <<>>
    /\ IdleSimilar /\ IdleConfig /\ IdleCategory /\ IdleCard /\ IdleExtract
    /\ IdleSend
    /\ IdleCall /\ IdleThreads /\ IdleAssortment
    /\ IdleBarcodes

\* a caller calls validate_color
CallValidateColor ==
    /\ pc = "validate_idle"
    /\ \E v \in ValidatedColors :
          args' = [fn |-> "validate_color", value |-> v, cat_id |-> None]
    /\ result' = NoResult
    /\ pc' = "validate_call"
    /\ UNCHANGED <<barcodeVars, assortmentVars, threadVars, similarVars, configVars, categoryVars, registryVars, cardVars,
                   extractVars, sendVars>>

\* a caller calls validate_product_kind
CallValidateProductKind ==
    /\ pc = "validate_idle"
    /\ \E v \in ValidatedKinds, c \in ValidatedCategories :
          args' = [fn |-> "validate_product_kind", value |-> v, cat_id |-> c]
    /\ result' = NoResult
    /\ pc' = "validate_call"
    /\ UNCHANGED <<barcodeVars, assortmentVars, threadVars, similarVars, configVars, categoryVars, registryVars, cardVars,
                   extractVars, sendVars>>

\* validate_color runs and returns
ValidateColor ==
    /\ pc = "validate_call" /\ args.fn = "validate_color"
    /\ result' = ValidateColorResult(args.value)
    /\ IF args.value = EMPTY
       THEN UNCHANGED <<colorCache, calls>>
       ELSE /\ colorCache' = <<get_color_preset>>
            /\ calls' = calls \o ColorFetches
    /\ pc' = "validate_idle"
    /\ UNCHANGED <<barcodeVars, assortmentVars, threadVars, args, registry, infoCache, catsCache, kindCache,
                   user_changes, pages, fetchedRows, response,
                   similarVars, configVars, categoryVars, cardVars, extractVars>>

\* validate_product_kind runs and returns
ValidateProductKind ==
    /\ pc = "validate_call" /\ args.fn = "validate_product_kind"
    /\ result' = ValidateKindResult(args.value, args.cat_id)
    /\ IF args.value = EMPTY \/ args.cat_id = None
       THEN UNCHANGED <<kindCache, calls>>
       ELSE /\ kindCache' = MemoKinds({args.cat_id})
            /\ calls' = calls \o KindFetches(args.cat_id)
    /\ pc' = "validate_idle"
    /\ UNCHANGED <<barcodeVars, assortmentVars, threadVars, args, registry, infoCache, catsCache, colorCache,
                   user_changes, pages, fetchedRows, response,
                   similarVars, configVars, categoryVars, cardVars, extractVars>>

\* between two calls the registry's answers may change
RegistryDrifts ==
    /\ pc = "validate_idle"
    /\ registry' \in ExtractRegistries \ {registry}
    /\ UNCHANGED <<barcodeVars, assortmentVars, threadVars, callVars, pc, infoCache, catsCache, colorCache, kindCache,
                   similarVars, configVars, categoryVars, cardVars, extractVars,
                   sendVars>>

NextValidate ==
    \/ CallValidateColor
    \/ CallValidateProductKind
    \/ ValidateColor
    \/ ValidateProductKind
    \/ RegistryDrifts

SpecValidate == InitValidate /\ [][NextValidate]_vars

(***************************************************************************)
(* Two requests validating at the same time                                *)
(*                                                                         *)
(* The wrapper of functools.cache looks the key up, calls the function on  *)
(* a miss and stores what it returned, in three steps without a lock;      *)
(* the function waits for the registry in between.                         *)
(***************************************************************************)

Threads == {1, 2}

\* the vocabulary keys: the colours, or the kinds of a category
VocabularyKeys == {COLOR_PRESET_CAT_ID, DEFAULT_CAT_ID, CAT_TROUSERS}

Cached(key) ==
    IF key = COLOR_PRESET_CAT_ID THEN colorCache # <<>>
    ELSE key \in DOMAIN kindCache

CachedValue(key) ==
    IF key = COLOR_PRESET_CAT_ID THEN colorCache[1] ELSE kindCache[key]

\* what the body of get_color_preset / get_kind_preset returns now
Fetched(key) ==
    IF key = COLOR_PRESET_CAT_ID THEN RegistryColors ELSE RegistryKinds(key)

FetchRequest(key) ==
    IF key = COLOR_PRESET_CAT_ID
    THEN [cat_id |-> COLOR_PRESET_CAT_ID, attr_id |-> ATTR_COLOR]
    ELSE [cat_id |-> key, attr_id |-> ATTR_KIND]

InitConcurrent ==
    /\ pc = "concurrent"
    /\ threads \in [Threads -> {[at |-> "lookup", key |-> k, preset |-> {}] :
                                   k \in VocabularyKeys}]
    /\ cacheWrites = <<>>
    /\ registry \in ExtractRegistries
    /\ infoCache = <<>>
    /\ catsCache = <<>>
    /\ colorCache = <<>>
    /\ kindCache = <<>>
    /\ IdleSimilar /\ IdleConfig /\ IdleCategory /\ IdleCard /\ IdleExtract
    /\ IdleSend
    /\ IdleCall /\ IdleAssortment
    /\ IdleBarcodes

\* the wrapper looks the key up: a hit returns the cached vocabulary
CacheLookup(t) ==
    /\ threads[t].at = "lookup"
    /\ threads' =
          [threads EXCEPT ![t] =
              IF Cached(threads[t].key)
              THEN [@ EXCEPT !.at = "returned", !.preset = CachedValue(threads[t].key)]
              ELSE [@ EXCEPT !.at = "fetch"]]
    /\ UNCHANGED <<barcodeVars, assortmentVars, pc, cacheWrites, registryVars, callVars, similarVars, configVars,
                   categoryVars, cardVars, extractVars, sendVars>>

\* on a miss the function asks the registry
CacheMissFetch(t) ==
    /\ threads[t].at = "fetch"
    /\ threads' = [threads EXCEPT ![t].at = "store",
                                  ![t].preset = Fetched(threads[t].key)]
    /\ calls' = Append(calls, FetchRequest(threads[t].key))
    /\ UNCHANGED <<barcodeVars, assortmentVars, pc, cacheWrites, registryVars, callVars, similarVars, configVars,
                   categoryVars, cardVars, extractVars,
                   user_changes, pages, fetchedRows, response>>

\* the wrapper stores what the function returned
CacheStore(t) ==
    /\ threads[t].at = "store"
    /\ threads' = [threads EXCEPT ![t].at = "returned"]
    /\ cacheWrites' = Append(cacheWrites, threads[t].key)
    /\ IF threads[t].key = COLOR_PRESET_CAT_ID
       THEN colorCache' = <<threads[t].preset>> /\ UNCHANGED kindCache
       ELSE /\ kindCache' =
                  [k \in DOMAIN kindCache \cup {threads[t].key} |->
                      IF k = threads[t].key THEN threads[t].preset ELSE kindCache[k]]
            /\ UNCHANGED colorCache
    /\ UNCHANGED <<barcodeVars, assortmentVars, pc, registry, infoCache, catsCache, callVars, similarVars,
                   configVars, categoryVars, cardVars, extractVars, sendVars>>

\* the registry's answers change while the requests run
RegistryDriftsMeanwhile ==
    /\ pc = "concurrent"
    /\ registry' \in ExtractRegistries \ {registry}
    /\ UNCHANGED <<barcodeVars, assortmentVars, pc, threadVars, callVars, infoCache, catsCache, colorCache,
                   kindCache, similarVars, configVars, categoryVars, cardVars,
                   extractVars, sendVars>>

NextConcurrent ==
    \/ \E t \in Threads : CacheLookup(t)
    \/ \E t \in Threads : CacheMissFetch(t)
    \/ \E t \in Threads : CacheStore(t)
    \/ RegistryDriftsMeanwhile

SpecConcurrent == InitConcurrent /\ [][NextConcurrent]_vars

(***************************************************************************)
(* get_all_assortment as an operation                                      *)
(***************************************************************************)

\* most rows the inventory holds
MaxRows == 7

\* the page size (limit = 1000 in the code), scaled down
PageLimit == 2

\* the value a client method returns for "no data"
NoData == [kind |-> "None"]

\* the rows of the page at an offset: the row numbers offset+1 .. offset+limit
PageRows(offset) ==
    [i \in 1..Min(PageLimit, inventory - offset) |-> offset + i]

\* what get_assortment returns: None when the request fails, the page else
get_assortment(offset, outcome) ==
    IF outcome = "ok" THEN [kind |-> "data", rows |-> PageRows(offset)]
    ELSE NoData

\* the loop's test taking a page shorter than the limit for the end as well
PageEnds_short(data) == data.kind = "None" \/ Len(data.rows) < PageLimit

\* `not data or not data.get('rows')`
PageEnds(data) == data.kind = "None" \/ data.rows = <<>>

PageOutcomes == {"ok", "unauthorized", "bad_status", "exception"}

InitAssortment ==
    /\ pc = "assortment_call"
    /\ inventory \in 0..MaxRows
    /\ all_items = <<>>
    /\ pages = 0
    /\ calls = <<>>
    /\ user_changes = <<>> /\ fetchedRows = FALSE /\ response = ""
    /\ IdleSimilar /\ IdleConfig /\ IdleCategory /\ IdleRegistry /\ IdleCard
    /\ IdleExtract
    /\ IdleCall /\ IdleThreads
    /\ IdleBarcodes

\* get_all_assortment: test_connection, None when it fails
AssortmentTestConnection ==
    /\ pc = "assortment_call"
    /\ \E outcome \in {"ok", "bad_status", "exception"} :
          /\ calls' = Append(calls, [call |-> "ms_context", offset |-> 0,
                                     outcome |-> outcome])
          /\ IF outcome = "ok"
             THEN pc' = "assortment_page" /\ UNCHANGED result
             ELSE pc' = "assortment_done" /\ result' = NoData
    /\ UNCHANGED <<barcodeVars, args, user_changes, pages, fetchedRows, response, assortmentVars,
                   threadVars, similarVars, configVars, categoryVars, registryVars,
                   cardVars, extractVars>>

\* get_all_assortment: one turn of the loop
AssortmentPage ==
    /\ pc = "assortment_page"
    /\ \E outcome \in PageOutcomes :
          /\ calls' = Append(calls, [call |-> "ms_assortment",
                                     offset |-> pages * PageLimit,
                                     outcome |-> outcome])
          /\ IF PageEnds(get_assortment(pages * PageLimit, outcome))
             THEN /\ UNCHANGED <<all_items, pages>>
                  /\ result' = [kind |-> "data", rows |-> all_items]
                  /\ pc' = "assortment_done"
             ELSE /\ all_items' =
                        all_items \o get_assortment(pages * PageLimit, outcome).rows
                  /\ IF Len(get_assortment(pages * PageLimit, outcome).rows) < PageLimit
                     THEN /\ result' = [kind |-> "data", rows |-> all_items']
                          /\ pc' = "assortment_done"
                          /\ UNCHANGED pages
                     ELSE /\ pages' = pages + 1
                          /\ pc' = "assortment_page"
                          /\ UNCHANGED result
    /\ UNCHANGED <<barcodeVars, args, inventory, user_changes, fetchedRows, response,
                   threadVars, similarVars, configVars, categoryVars, registryVars,
                   cardVars, extractVars>>

NextAssortment ==
    \/ AssortmentTestConnection
    \/ AssortmentPage

SpecAssortment == InitAssortment /\ [][NextAssortment]_vars

\* get_all_assortment runs on one thread and every request it makes carries a
\* timeout, so a turn of the loop that can be taken is taken
SpecAssortmentRuns == SpecAssortment /\ WF_vars(NextAssortment)

(***************************************************************************)
(* The client methods of the registry and of the inventory system, each   *)
(* called once, with every outcome of its remote requests                  *)
(***************************************************************************)

\* an exception leaves the method: by a remote request, or by an argument
Raised(by) == [kind |-> "raised", by |-> by]

\* {"success": False, "error": ...}
Failure(error) == [kind |-> "dict", success |-> FALSE, error |-> error]

\* a request that did not bring a usable answer
IOErrors == {"timeout", "bad_status", "bad_json", "not_object"}

\* nk_api._req: the result, None after a caught error; a JSON body that is
\* no object has no .get
ReqResult(outcome) ==
    IF outcome = "ok" THEN [kind |-> "value"]
    ELSE IF outcome = "not_object" THEN Raised("remote")
    ELSE NoData

\* send_card_to_nk goes on to the status check
PostAccepted_with_result(outcome) == outcome \in {"ok", "no_feed_id"}

PostAccepted(outcome) == outcome = "ok"

\* send_card_to_nk: the result when the POST did not bring a feed id
PostFailure(outcome) ==
    IF outcome = "bad_status" THEN Failure("HTTP status")
    ELSE IF outcome = "no_result" THEN Failure("no result")
    ELSE IF outcome = "no_feed_id" THEN Failure("no feed_id")
    ELSE Failure("exception text")

\* the feed ids the registry gives, and the one a caller of the status
\* methods passes
FeedIds == {"feed-1", "feed-2"}

ArgFeedId == "feed-0"

\* the feed id of the card POST that was accepted, in a set
PostedFeedIds ==
    {calls[i].feed_id : i \in {j \in DOMAIN calls :
        calls[j].call = "nk_feed_post" /\ calls[j].outcome = "ok"}}

\* feed_id of check_feed_status(feed_id): the one send_card_to_nk took from
\* the POST's answer, or the caller's
CurrentFeedId ==
    IF PostedFeedIds = {} THEN ArgFeedId ELSE CHOOSE f \in PostedFeedIds : TRUE

\* dict.get('feed_id') of a dict that has no such key
NoFeedId == "None"

\* check_feed_status: feed_info
FeedInfo(outcome, details) ==
    IF outcome \in {"ok", "rejected"}
    THEN [kind |-> "dict", success |-> TRUE, feed_id |-> CurrentFeedId,
          status |-> outcome, details |-> details]
    ELSE IF outcome = "bad_status" THEN Failure("HTTP status")
    ELSE Failure("exception text")

\* get_feed_details: what it returns after its requests
FeedDetails(details) == [kind |-> "dict", details |-> details]

\* format_status_response: success, feed_id and status are read from
\* feed_info with .get, the error text of a failed status check is not copied
format_status_response(feed_info) ==
    [kind |-> "dict",
     success |-> feed_info.success,
     feed_id |-> IF "feed_id" \in DOMAIN feed_info THEN feed_info.feed_id
                 ELSE NoFeedId,
     status |-> IF "status" \in DOMAIN feed_info THEN feed_info.status
                ELSE "Unknown",
     details |-> IF "details" \in DOMAIN feed_info THEN feed_info.details
                 ELSE "none"]

\* the feed status method returns to its caller; send_card_to_nk returns
\* format_status_response(status_info)
StatusReturn(fn, outcome, details) ==
    IF fn = "get_feed_details" THEN FeedDetails(details)
    ELSE IF fn = "send_card_to_nk"
    THEN format_status_response(FeedInfo(outcome, details))
    ELSE FeedInfo(outcome, details)

\* get_product_attributes: no error is caught
ProductAttributesResult(outcome) ==
    IF outcome = "ok" THEN [kind |-> "rows"] ELSE Raised("remote")

\* update_product_gtin: every error is caught
GtinResult(outcome) ==
    IF outcome \in {"ok", "exists"}
    THEN [kind |-> "dict", success |-> TRUE, message |-> outcome]
    ELSE Failure("exception text")

ClientMethods ==
    {"_req", "send_card_to_nk", "check_feed_status", "get_feed_details",
     "get_assortment", "get_product_attributes", "update_product_gtin"}

\* the types of config.REQUIRED_CUSTOM_FIELDS; "unknown" for a name that is
\* not in it
FieldTypes == {"unknown", "customentity", "boolean", "string"}

ClientCalls ==
    {[fn |-> f, field |-> "none"] : f \in ClientMethods}
        \cup {[fn |-> "create_custom_field", field |-> ty] : ty \in FieldTypes}

InitClient ==
    /\ pc = "client_call"
    /\ args \in ClientCalls
    /\ result = NoResult
    /\ IdleSimilar /\ IdleConfig /\ IdleCategory /\ IdleRegistry /\ IdleCard
    /\ IdleExtract /\ IdleSend
    /\ IdleThreads /\ IdleAssortment
    /\ IdleBarcodes

\* what a step of a client method leaves alone
clientFrame ==
    <<barcodeVars, args, user_changes, pages, fetchedRows, response, assortmentVars, threadVars,
      similarVars, configVars, categoryVars, registryVars, cardVars, extractVars>>

Request(call, outcome) ==
    calls' = Append(calls, [call |-> call, outcome |-> outcome])

Return(r) == result' = r /\ pc' = "client_done"

Goto(at) == pc' = at /\ UNCHANGED result

\* nk_api._req
ClientReq ==
    /\ pc = "client_call" /\ args.fn = "_req"
    /\ \E outcome \in {"ok"} \cup IOErrors :
          Request("nk_get", outcome) /\ Return(ReqResult(outcome))
    /\ UNCHANGED clientFrame

\* send_card_to_nk: the POST of the card
SendCardPost ==
    /\ pc = "client_call" /\ args.fn = "send_card_to_nk"
    /\ \E outcome \in {"ok", "timeout", "bad_status", "bad_json", "no_result",
                      "no_feed_id"} :
          /\ IF outcome = "ok"
             THEN \E f \in FeedIds :
                     calls' = Append(calls, [call |-> "nk_feed_post",
                                             outcome |-> outcome,
                                             feed_id |-> f])
             ELSE Request("nk_feed_post", outcome)
          /\ IF PostAccepted(outcome) THEN Goto("feed_status")
             ELSE Return(PostFailure(outcome))
    /\ UNCHANGED clientFrame

\* check_feed_status, called or reached from send_card_to_nk
CheckFeedStatus ==
    /\ \/ pc = "client_call" /\ args.fn = "check_feed_status"
       \/ pc = "feed_status"
    /\ \E outcome \in {"ok", "rejected", "timeout", "bad_status", "bad_json"} :
          /\ Request("nk_feed_status", outcome)
          /\ IF outcome = "rejected" THEN Goto("feed_details")
             ELSE Return(StatusReturn(args.fn, outcome, "none"))
    /\ UNCHANGED clientFrame

\* get_feed_details, called or reached from check_feed_status: the first
\* request
GetFeedDetails ==
    /\ \/ pc = "client_call" /\ args.fn = "get_feed_details"
       \/ pc = "feed_details"
    /\ \E outcome \in {"ok", "timeout", "bad_status", "bad_json"} :
          /\ Request("nk_feed_details", outcome)
          /\ IF outcome = "ok" THEN Return(StatusReturn(args.fn, "rejected", "result"))
             ELSE Goto("feeds_list")
    /\ UNCHANGED clientFrame

\* get_feed_details: the list of feeds
GetFeedsList ==
    /\ pc = "feeds_list"
    /\ \E outcome \in {"ok", "no_match", "timeout", "bad_status", "bad_json"} :
          /\ Request("nk_feeds", outcome)
          /\ Return(StatusReturn(args.fn, "rejected",
                                 IF outcome = "ok" THEN "feed" ELSE "empty"))
    /\ UNCHANGED clientFrame

\* MoySkladAPI.get_assortment; whether the error of a body that is no JSON
\* is a RequestException depends on the version of requests
ClientGetAssortment ==
    /\ pc = "client_call" /\ args.fn = "get_assortment"
    /\ \E outcome \in PageOutcomes \cup {"bad_json"} :
          /\ Request("ms_assortment", outcome)
          /\ IF outcome = "bad_json"
             THEN \E r \in {NoData, Raised("remote")} : Return(r)
             ELSE Return(get_assortment(0, outcome))
    /\ UNCHANGED clientFrame

\* MoySkladAPI.get_product_attributes
GetProductAttributes ==
    /\ pc = "client_call" /\ args.fn = "get_product_attributes"
    /\ \E outcome \in {"ok", "timeout", "bad_status", "bad_json"} :
          Request("ms_attributes", outcome)
              /\ Return(ProductAttributesResult(outcome))
    /\ UNCHANGED clientFrame

\* MoySkladAPI.create_custom_field: an unknown name, or the way to the
\* request that creates the attribute
CreateCustomFieldStart ==
    /\ pc = "client_call" /\ args.fn = "create_custom_field"
    /\ UNCHANGED calls
    /\ IF args.field = "unknown" THEN Return(Raised("argument"))
       ELSE IF args.field = "customentity" THEN Goto("custom_entity")
       ELSE Goto("custom_field")
    /\ UNCHANGED clientFrame

\* MoySkladAPI._create_custom_entity: the dictionary is created
CreateCustomEntity ==
    /\ pc = "custom_entity"
    /\ \E outcome \in {"ok", "timeout", "bad_status", "bad_json"} :
          /\ Request("ms_customentity", outcome)
          /\ IF outcome = "ok" THEN Goto("custom_values")
             ELSE Return(Raised("remote"))
    /\ UNCHANGED clientFrame

\* MoySkladAPI._create_custom_entity: its values are created, the answers
\* are not looked at
CreateCustomEntityValues ==
    /\ pc = "custom_values"
    /\ \E outcome \in {"ok", "timeout", "bad_status"} :
          /\ Request("ms_customentity_value", outcome)
          /\ IF outcome = "timeout" THEN Return(Raised("remote"))
             ELSE Goto("custom_field")
    /\ UNCHANGED clientFrame

\* MoySkladAPI.create_custom_field: the attribute is created
CreateCustomField ==
    /\ pc = "custom_field"
    /\ \E outcome \in {"ok", "timeout", "bad_status"} :
          /\ Request("ms_attribute_post", outcome)
          /\ IF outcome = "timeout" THEN Return(Raised("remote"))
             ELSE Return([kind |-> "bool", value |-> outcome = "ok"])
    /\ UNCHANGED clientFrame

\* MoySkladAPI.update_product_gtin: the entity is read
UpdateGtinRead ==
    /\ pc = "client_call" /\ args.fn = "update_product_gtin"
    /\ \E outcome \in {"ok", "exists", "timeout", "bad_status", "bad_json"} :
          /\ Request("ms_entity_get", outcome)
          /\ IF outcome = "ok" THEN Goto("gtin_write")
             ELSE Return(GtinResult(outcome))
    /\ UNCHANGED clientFrame

\* MoySkladAPI.update_product_gtin: the barcodes are written
UpdateGtinWrite ==
    /\ pc = "gtin_write"
    /\ \E outcome \in {"ok", "timeout", "bad_status", "bad_json"} :
          Request("ms_entity_put", outcome) /\ Return(GtinResult(outcome))
    /\ UNCHANGED clientFrame

NextClient ==
    \/ ClientReq
    \/ SendCardPost
    \/ CheckFeedStatus
    \/ GetFeedDetails
    \/ GetFeedsList
    \/ ClientGetAssortment
    \/ GetProductAttributes
    \/ CreateCustomFieldStart
    \/ CreateCustomEntity
    \/ CreateCustomEntityValues
    \/ CreateCustomField
    \/ UpdateGtinRead
    \/ UpdateGtinWrite

SpecClient == InitClient /\ [][NextClient]_vars

\* strings of the items and of their flag values
\* " Да"
S_da == <<32, 1044, 1072>>
\* "нет"
S_net == <<1085, 1077, 1090>>
\* "Yes"
S_Yes == <<89, 101, 115>>
\* "p1"
Id_p1 == <<112, 49>>
\* "p2"
Id_p2 == <<112, 50>>
\* "v1"
Id_v1 == <<118, 49>>
\* "product/p1"
Href_p1 == <<112, 114, 111, 100, 117, 99, 116, 47, 112, 49>>
\* "product/p2"
Href_p2 == <<112, 114, 111, 100, 117, 99, 116, 47, 112, 50>>
\* "product/p3"
Href_p3 == <<112, 114, 111, 100, 117, 99, 116, 47, 112, 51>>
\* "да"
W_da == <<1076, 1072>>
\* "true"
W_true == <<116, 114, 117, 101>>
\* "1"
W_1 == <<49>>
\* "yes"
W_yes == <<121, 101, 115>>

(***************************************************************************)
(* update_product_gtin, called several times on one item of the inventory  *)
(***************************************************************************)

\* "4600000000017"
G_13 == <<52, 54, 48, 48, 48, 48, 48, 48, 48, 48, 48, 49, 55>>
\* "04600000000017"
G_14 == <<48, 52, 54, 48, 48, 48, 48, 48, 48, 48, 48, 48, 49, 55>>
\* "4600-0000 00017"
G_dashed == <<52, 54, 48, 48, 45, 48, 48, 48, 48, 32, 48, 48, 48, 49, 55>>
\* "2000000000015"
G_other == <<50, 48, 48, 48, 48, 48, 48, 48, 48, 48, 48, 49, 53>>
\* "abc"
G_letters == <<97, 98, 99>>
\* "146000000000170"
G_15 == <<49, 52, 54, 48, 48, 48, 48, 48, 48, 48, 48, 48, 49, 55, 48>>
\* "00000000000000"
G_zeros == <<48, 48, 48, 48, 48, 48, 48, 48, 48, 48, 48, 48, 48, 48>>
\* "4601234567890"
E_13 == <<52, 54, 48, 49, 50, 51, 52, 53, 54, 55, 56, 57, 48>>

\* str.isdigit for one character: the ASCII digits, and the digits of other
\* scripts (the Arabic-Indic ones stand for them)
IsDigit(c) == c \in 48..57 \/ c \in 1632..1641

\* ''.join(filter(str.isdigit, str(gtin)))
Digits(s) == Keep(s, {i \in 1..Len(s) : IsDigit(s[i])})

\* s.zfill(n) for a string without a sign
zfill(s, n) ==
    IF Len(s) >= n THEN s ELSE [i \in 1..(n - Len(s)) |-> 48] \o s

\* format_gtin_for_moysklad: a falsy value is returned as it is
format_gtin_for_moysklad(gtin) ==
    IF gtin = EMPTY THEN gtin ELSE zfill(Digits(gtin), 14)

\* the barcode of the item has a GTIN that is not empty
HasGtin(barcode) == "gtin" \in DOMAIN barcode /\ barcode.gtin # EMPTY

\* gtin_exists: some barcode read has the GTIN, both formatted
gtin_exists(read, formatted_gtin) ==
    \E i \in 1..Len(read) :
        /\ HasGtin(read[i])
        /\ format_gtin_for_moysklad(read[i].gtin) = formatted_gtin

\* updated_barcodes: a copy of the barcodes read with the new one appended
updated_barcodes(read, formatted_gtin) ==
    Append(read, [gtin |-> formatted_gtin])

\* what update_product_gtin returns when nothing was raised
GtinSuccess(message, formatted_gtin) ==
    [kind |-> "dict", success |-> TRUE, message |-> message,
     gtin |-> formatted_gtin]

\* the barcodes the item has before the calls
BarcodeLists ==
    {<<>>,
     <<[ean13 |-> E_13]>>,
     <<[ean13 |-> E_13], [gtin |-> G_14]>>,
     <<[gtin |-> G_13]>>,
     <<[gtin |-> G_other], [ean13 |-> E_13]>>}

\* the GTINs passed: of 13 and 14 digits, with separators, without a digit,
\* of 15 digits, and the empty string the /update_gtin route lets through
GtinInputs == {EMPTY, G_13, G_14, G_dashed, G_other, G_letters, G_15}

\* the calls made one after another
MaxGtinCalls == 2

GtinReads == {i \in DOMAIN calls : calls[i].call = "ms_entity_get"}

InitGtin ==
    /\ pc = "gtin_idle"
    /\ barcodes \in BarcodeLists
    /\ existing_barcodes = <<>>
    /\ result = NoResult
    /\ args = <<>>
    /\ IdleSimilar /\ IdleConfig /\ IdleCategory /\ IdleRegistry /\ IdleCard
    /\ IdleExtract /\ IdleSend /\ IdleThreads /\ IdleAssortment

gtinFrame ==
    <<user_changes, pages, fetchedRows, response, assortmentVars, threadVars,
      similarVars, configVars, categoryVars, registryVars, cardVars, extractVars>>

\* a caller calls update_product_gtin(product_id, new_gtin, is_variant)
CallUpdateGtin ==
    /\ pc = "gtin_idle"
    /\ Cardinality(GtinReads) < MaxGtinCalls
    /\ \E g \in GtinInputs, v \in BOOLEAN :
          args' = [fn |-> "update_product_gtin", product_id |-> Id_p1,
                   new_gtin |-> g,
                   entity_type |-> IF v THEN "variant" ELSE "product"]
    /\ result' = NoResult
    /\ pc' = "gtin_get"
    /\ UNCHANGED <<calls, barcodeVars, gtinFrame>>

\* the GET of the entity; an existing GTIN ends the call
GtinGet ==
    /\ pc = "gtin_get"
    /\ \E outcome \in {"ok", "timeout"} :
          /\ calls' = Append(calls, [call |-> "ms_entity_get",
                                     id |-> args.product_id,
                                     entity_type |-> args.entity_type,
                                     outcome |-> outcome])
          /\ IF outcome # "ok"
             THEN /\ result' = Failure("exception text")
                  /\ pc' = "gtin_idle"
                  /\ UNCHANGED existing_barcodes
             ELSE /\ existing_barcodes' = barcodes
                  /\ IF gtin_exists(barcodes, format_gtin_for_moysklad(args.new_gtin))
                     THEN /\ result' = GtinSuccess("exists",
                                           format_gtin_for_moysklad(args.new_gtin))
                          /\ pc' = "gtin_idle"
                     ELSE /\ pc' = "gtin_put"
                          /\ UNCHANGED result
    /\ UNCHANGED <<args, barcodes, gtinFrame>>

\* the PUT of the barcodes; the inventory system keeps the list it accepts
GtinPut ==
    /\ pc = "gtin_put"
    /\ \E outcome \in {"ok", "bad_status"} :
          /\ calls' = Append(calls,
                 [call |-> "ms_entity_put",
                  id |-> args.product_id,
                  entity_type |-> args.entity_type,
                  outcome |-> outcome,
                  barcodes |-> updated_barcodes(existing_barcodes,
                                   format_gtin_for_moysklad(args.new_gtin))])
          /\ IF outcome = "ok"
             THEN /\ barcodes' = updated_barcodes(existing_barcodes,
                                     format_gtin_for_moysklad(args.new_gtin))
                  /\ result' = GtinSuccess("added",
                                   format_gtin_for_moysklad(args.new_gtin))
             ELSE /\ UNCHANGED barcodes
                  /\ result' = Failure("exception text")
    /\ pc' = "gtin_idle"
    /\ UNCHANGED <<args, existing_barcodes, gtinFrame>>

NextGtin == CallUpdateGtin \/ GtinGet \/ GtinPut

SpecGtin == InitGtin /\ [][NextGtin]_vars

(***************************************************************************)
(* process_products_and_variants as an operation                           *)
(***************************************************************************)

\* _is_true: a bool, a number, a dictionary entry or anything else, as text
_is_true(v) ==
    IF "bool" \in DOMAIN v THEN v.bool
    ELSE IF "number" \in DOMAIN v THEN v.number = 1
    ELSE IF "dict" \in DOMAIN v THEN Lower(v.dict.name) \in {W_da, W_true, W_yes}
    ELSE Lower(Strip(v.str)) \in {W_da, W_true, W_1, W_yes}

\* has_flag: the first attribute named CUSTOM_ATTRIBUTES['national_catalog']
\* decides
has_flag(it) ==
    \E i \in 1..Len(it.attributes) :
        /\ it.attributes[i].name = "national_catalog"
        /\ \A j \in 1..(i - 1) : it.attributes[j].name # "national_catalog"
        /\ _is_true(it.attributes[i].value)

\* the positions in S, ascending, of a list of n items
Positions(n, S) == Keep([i \in 1..n |-> i], S)

\* products_with_flag, as positions of the list
products_with_flag(items) ==
    Positions(Len(items),
              {i \in 1..Len(items) : items[i].type = "product" /\ has_flag(items[i])})

\* product_href.split('/')[-1]
LastSegment(href) ==
    IF \E i \in 1..Len(href) : href[i] = 47
    THEN SubSeq(href, SetMax({i \in 1..Len(href) : href[i] = 47}) + 1, Len(href))
    ELSE href

\* the variant has a product reference whose last segment is the id
RefersTo(it, product_id) ==
    /\ it.type = "variant"
    /\ "product" \in DOMAIN it
    /\ LastSegment(it.product.href) = product_id

\* product_variants taking every variant that has a product reference
product_variants_any(items, p) ==
    Positions(Len(items),
              {j \in 1..Len(items) :
                  items[j].type = "variant" /\ "product" \in DOMAIN items[j]})

\* product_variants of the product at position p, as positions of the list
product_variants(items, p) ==
    Positions(Len(items), {j \in 1..Len(items) : RefersTo(items[j], items[p].id)})

\* result_items: each flagged product, then its variants
RECURSIVE result_items(_, _)
result_items(items, flagged) ==
    IF flagged = <<>> THEN <<>>
    ELSE (<<Head(flagged)>> \o product_variants(items, Head(flagged)))
             \o result_items(items, Tail(flagged))

\* the flagged products the loop gives the variant at position j to
ParentsOf(items, j) ==
    {k \in 1..Len(products_with_flag(items)) :
        RefersTo(items[j], items[products_with_flag(items)[k]].id)}

\* item['_parent_product'] = product: the items after the loops; a variant
\* keeps the product it was given last
WithParents(items) ==
    [j \in 1..Len(items) |->
        IF ParentsOf(items, j) = {} THEN items[j]
        ELSE [_parent_product |->
                 items[products_with_flag(items)[SetMax(ParentsOf(items, j))]]]
             @@ items[j]]

\* the attribute lists of the items
FlagValues ==
    {[bool |-> TRUE], [number |-> 0], [str |-> S_da], [str |-> S_net],
     [dict |-> [name |-> S_Yes]]}

Flag(v) == [name |-> "national_catalog", value |-> v]

OtherAttr == [name |-> "other", value |-> [bool |-> TRUE]]

ItemAttrs ==
    {<<>>} \cup {<<Flag(v)>> : v \in FlagValues}
           \cup {<<OtherAttr, Flag([number |-> 1])>>}

\* the items: products (two of them may have the same id, as when a row is
\* fetched on two pages), variants with and without a product reference, a
\* bundle and a service
ItemPool ==
    {[type |-> "product", id |-> Id_p1, attributes |-> a] : a \in ItemAttrs}
    \cup {[type |-> "product", id |-> Id_p2, attributes |-> a] :
             a \in {<<>>, <<Flag([bool |-> TRUE])>>}}
    \cup {[type |-> "variant", id |-> Id_v1, attributes |-> <<>>,
           product |-> [href |-> h]] : h \in {Href_p1, Href_p2, Href_p3}}
    \cup {[type |-> "variant", id |-> Id_v1, attributes |-> <<>>]}
    \cup {[type |-> t, id |-> Id_p1, attributes |-> <<Flag([bool |-> TRUE])>>] :
             t \in {"bundle", "service"}}

\* the length of the item list
MaxItems == 3

ItemLists == UNION {[1..n -> ItemPool] : n \in 0..MaxItems}

InitItems ==
    /\ pc = "items_call"
    /\ all_items \in ItemLists
    /\ inventory = 0
    /\ IdleSimilar /\ IdleConfig /\ IdleCategory /\ IdleRegistry /\ IdleCard
    /\ IdleExtract /\ IdleSend /\ IdleCall /\ IdleThreads /\ IdleBarcodes

\* process_products_and_variants(all_items): it returns the items (here
\* their positions in all_items) and leaves the parent links on the variants
ProcessProductsAndVariants ==
    /\ pc = "items_call"
    /\ result' = [kind |-> "list",
                  items |-> result_items(all_items, products_with_flag(all_items))]
    /\ all_items' = WithParents(all_items)
    /\ pc' = "items_done"
    /\ UNCHANGED <<barcodeVars, args, sendVars, inventory, threadVars,
                   similarVars, configVars, categoryVars, registryVars,
                   cardVars, extractVars>>

NextItems == ProcessProductsAndVariants

SpecItems == InitItems /\ [][NextItems]_vars

(***************************************************************************)
(* The routes /update_gtin and /send_to_nk/<int:product_index>             *)
(***************************************************************************)

\* items of the inventory
P1_flagged == [type |-> "product", id |-> Id_p1,
               attributes |-> <<Flag([bool |-> TRUE])>>]

P2_flagged == [type |-> "product", id |-> Id_p2,
               attributes |-> <<Flag([str |-> S_da])>>]

P2_plain == [type |-> "product", id |-> Id_p2, attributes |-> <<>>]

VariantOf(href) ==
    [type |-> "variant", id |-> Id_v1, attributes |-> <<>>,
     product |-> [href |-> href]]

\* the rows get_all_assortment brings
RouteRows ==
    {<<>>,
     <<P1_flagged>>,
     <<P2_plain, VariantOf(Href_p2)>>,
     <<VariantOf(Href_p1), P1_flagged, P2_plain>>,
     <<P2_flagged, VariantOf(Href_p1), P1_flagged, VariantOf(Href_p2)>>}

\* the requests: /update_gtin takes product_index and gtin from the JSON
\* body, /send_to_nk takes an unsigned index from the path
RouteRequests ==
    {[fn |-> "update_gtin", product_index |-> i, gtin |-> G_13] : i \in -5..4}
    \cup {[fn |-> "update_gtin", product_index |-> 0, gtin |-> EMPTY],
          [fn |-> "update_gtin", gtin |-> G_13],
          [fn |-> "update_gtin", product_index |-> 0]}
    \cup {[fn |-> "send_product_to_nk", product_index |-> i] : i \in 0..4}

\* raw_data['item'] of a feed status answer
RawItems ==
    {<<>>,
     <<[gtin |-> G_13]>>,
     <<[good_id |-> 1], [gtin |-> G_other]>>,
     <<[gtin |-> EMPTY]>>}

InitRoutes ==
    /\ pc = "route_call"
    /\ args \in RouteRequests
    /\ result = NoResult
    /\ barcodes \in {<<[ean13 |-> E_13]>>, <<[ean13 |-> E_13], [gtin |-> G_14]>>}
    /\ existing_barcodes = <<>>
    /\ IdleSimilar /\ IdleConfig /\ IdleCategory /\ IdleRegistry /\ IdleCard
    /\ IdleExtract /\ IdleSend /\ IdleThreads /\ IdleAssortment

\* what a step of a route leaves alone
routeFrame ==
    <<user_changes, pages, fetchedRows, inventory, threadVars, similarVars,
      configVars, categoryVars, registryVars, cardVars, extracted>>

\* return jsonify(r)
RouteAnswer(r) == response' = r /\ pc' = "route_done"

\* {'success': False, 'message': ...} of /update_gtin, {'success': False,
\* 'error': ...} of /send_to_nk
RouteFailure(fn, text) ==
    IF fn = "update_gtin"
    THEN [kind |-> "dict", success |-> FALSE, message |-> text]
    ELSE Failure(text)

\* /update_gtin needs both parameters
ParamsMissing(req) ==
    /\ req.fn = "update_gtin"
    /\ ~({"product_index", "gtin"} \subseteq DOMAIN req)

\* get_all_assortment and process_products_and_variants, after the
\* parameter check of /update_gtin
RouteLoad ==
    /\ pc = "route_call"
    /\ IF ParamsMissing(args)
       THEN /\ RouteAnswer(RouteFailure(args.fn, "missing parameters"))
            /\ UNCHANGED <<calls, all_items, result>>
       ELSE \E outcome \in {"down", "no_rows", "ok"}, rows \in RouteRows :
               IF outcome = "down"
               THEN /\ calls' = Append(calls, [call |-> "ms_context",
                                               outcome |-> outcome])
                    /\ RouteAnswer(RouteFailure(args.fn, "load failed"))
                    /\ UNCHANGED <<all_items, result>>
               ELSE /\ calls' = calls \o <<[call |-> "ms_context", outcome |-> "ok"],
                                          [call |-> "ms_assortment",
                                           outcome |-> outcome]>>
                    /\ all_items' = WithParents(IF outcome = "ok" THEN rows ELSE <<>>)
                    /\ result' =
                          [kind |-> "list",
                           items |-> result_items(all_items',
                                                  products_with_flag(all_items'))]
                    /\ pc' = "route_select"
                    /\ UNCHANGED response
    /\ UNCHANGED <<args, item, barcodeVars, routeFrame>>

\* the index check of /send_to_nk, which /update_gtin has as well
IndexTooLarge(product_index, filtered_items) ==
    product_index >= Len(filtered_items)

\* filtered_items[product_index] raises IndexError
IndexError(product_index, filtered_items) ==
    product_index < 0 - Len(filtered_items)

\* filtered_items[product_index]: a negative index counts from the end
Subscript(filtered_items, product_index) ==
    IF product_index >= 0 THEN filtered_items[product_index + 1]
    ELSE filtered_items[Len(filtered_items) + product_index + 1]

\* is_variant and the entity type of the URL
EntityType(it) == IF it.type = "variant" THEN "variant" ELSE "product"

\* the arguments of api.update_product_gtin(item_id, gtin, is_variant)
GtinArgs(req, it, gtin) ==
    [product_id |-> it.id, new_gtin |-> gtin, entity_type |-> EntityType(it)]
        @@ req

\* /update_gtin: the index check, the item and the call of update_product_gtin
UpdateGtinSelect ==
    /\ pc = "route_select" /\ args.fn = "update_gtin"
    /\ IF IndexTooLarge(args.product_index, result.items)
       THEN /\ RouteAnswer(RouteFailure(args.fn, "not found"))
            /\ UNCHANGED <<args, item>>
       ELSE IF IndexError(args.product_index, result.items)
       THEN /\ RouteAnswer(RouteFailure(args.fn, "exception text"))
            /\ UNCHANGED <<args, item>>
       ELSE /\ item' = all_items[Subscript(result.items, args.product_index)]
            /\ args' = GtinArgs(args, item', args.gtin)
            /\ pc' = "gtin_get"
            /\ UNCHANGED response
    /\ UNCHANGED <<calls, result, all_items, barcodeVars, routeFrame>>

\* /send_to_nk: the index check and the item; its data are extracted and the
\* required fields checked (SpecSend follows these field by field)
SendSelect ==
    /\ pc = "route_select" /\ args.fn = "send_product_to_nk"
    /\ IF IndexTooLarge(args.product_index, result.items)
       THEN /\ RouteAnswer(RouteFailure(args.fn, "not found"))
            /\ UNCHANGED item
       ELSE /\ item' = all_items[Subscript(result.items, args.product_index)]
            /\ \E fields \in {"ok", "no_name", "no_tnved"} :
                  IF fields = "ok" THEN pc' = "route_post" /\ UNCHANGED response
                  ELSE RouteAnswer(RouteFailure(args.fn, fields))
    /\ UNCHANGED <<calls, result, args, all_items, barcodeVars, routeFrame>>

\* send_card_to_nk: the POST of the card
RouteSendCardPost ==
    /\ pc = "route_post"
    /\ \E outcome \in {"ok", "timeout", "bad_status", "no_feed_id"} :
          /\ IF outcome = "ok"
             THEN \E f \in FeedIds :
                     calls' = Append(calls, [call |-> "nk_feed_post",
                                             outcome |-> outcome,
                                             feed_id |-> f])
             ELSE Request("nk_feed_post", outcome)
          /\ IF PostAccepted(outcome)
             THEN pc' = "route_card_status" /\ UNCHANGED <<result, response>>
             ELSE /\ result' = PostFailure(outcome)
                  /\ RouteAnswer(Failure(result'.error))
    /\ UNCHANGED <<args, item, all_items, barcodeVars, routeFrame>>

\* status_gtin taking a GTIN of its own when the answer has none
status_gtin_invented(items) ==
    IF \E i \in 1..Len(items) : HasGtin(items[i])
    THEN items[SetMin({i \in 1..Len(items) : HasGtin(items[i])})].gtin
    ELSE G_other

\* the gtin format_status_response copies: the first one that is not empty
status_gtin(items) ==
    IF \E i \in 1..Len(items) : HasGtin(items[i])
    THEN items[SetMin({i \in 1..Len(items) : HasGtin(items[i])})].gtin
    ELSE EMPTY

\* format_status_response with the "gtin" key it adds when raw_data has one
full_status_response(feed_info, items) ==
    IF feed_info.success /\ status_gtin(items) # EMPTY
    THEN [gtin |-> status_gtin(items)] @@ format_status_response(feed_info)
    ELSE format_status_response(feed_info)

\* one request of check_feed_status, with the items of its answer
StatusRequest(outcome, items) ==
    calls' = Append(calls, [call |-> "nk_feed_status", outcome |-> outcome,
                            items |-> IF outcome = "ok" THEN items ELSE <<>>])

\* send_card_to_nk: its status check, whose formatted answer is send_result;
\* the handler gives up unless it has success and a feed id
RouteCardStatus ==
    /\ pc = "route_card_status"
    /\ \E outcome \in {"ok", "timeout", "bad_status"}, items \in RawItems :
          /\ StatusRequest(outcome, items)
          /\ result' = full_status_response(FeedInfo(outcome, "none"), items)
          /\ IF ~result'.success
             THEN RouteAnswer(Failure("send failed"))
             ELSE IF result'.feed_id = NoFeedId
             THEN RouteAnswer(Failure("no feed_id"))
             ELSE pc' = "route_status" /\ UNCHANGED response
    /\ UNCHANGED <<args, item, all_items, barcodeVars, routeFrame>>

\* response_data before the inventory system is written
SentResponse(send_result, full_result) ==
    [kind |-> "dict", success |-> TRUE, feed_id |-> send_result.feed_id,
     status |-> full_result.status, gtin_updated_in_ms |-> FALSE]

\* the handler's own check_feed_status(feed_id); a GTIN in its answer is
\* passed to update_product_gtin
RouteFeedStatus ==
    /\ pc = "route_status"
    /\ \E outcome \in {"ok", "timeout", "bad_status"}, items \in RawItems :
          /\ StatusRequest(outcome, items)
          /\ IF "gtin" \in DOMAIN full_status_response(FeedInfo(outcome, "none"), items)
             THEN /\ args' = GtinArgs(args, item,
                                full_status_response(FeedInfo(outcome, "none"),
                                                     items).gtin)
                  /\ pc' = "gtin_get"
                  /\ UNCHANGED <<result, response>>
             ELSE /\ RouteAnswer(SentResponse(result,
                        full_status_response(FeedInfo(outcome, "none"), items)))
                  /\ UNCHANGED <<result, args>>
    /\ UNCHANGED <<item, all_items, barcodeVars, routeFrame>>

\* update_product_gtin has returned: /update_gtin answers with its result;
\* /send_to_nk notes whether the GTIN was stored
RouteGtinReturn ==
    /\ pc = "gtin_idle" /\ args.fn \in {"update_gtin", "send_product_to_nk"}
    /\ response' =
          IF args.fn = "update_gtin" THEN result
          ELSE [kind |-> "dict", success |-> TRUE,
                gtin |-> args.new_gtin,
                gtin_updated_in_ms |-> result.success]
    /\ pc' = "route_done"
    /\ UNCHANGED <<calls, result, args, item, all_items, barcodeVars, routeFrame>>

NextRoutes ==
    \/ RouteLoad
    \/ UpdateGtinSelect
    \/ SendSelect
    \/ RouteSendCardPost
    \/ RouteCardStatus
    \/ RouteFeedStatus
    \/ GtinGet
    \/ GtinPut
    \/ RouteGtinReturn

SpecRoutes == InitRoutes /\ [][NextRoutes]_vars

(***************************************************************************)
(* apply_user_changes as an operation                                      *)
(***************************************************************************)

ChangeRequests ==
    UserChanges \cup
    {[color |-> V_red, size |-> V_L, name |-> NM_SHORTS],
     [product_type |-> K_halat, color |-> EMPTY],
     [article |-> V_art, size |-> V_M],
     [color |-> V_white, product_type |-> K_bryuki, size |-> V_L]}

InitChanges ==
    /\ pc = "changes_call"
    /\ registry \in RegistryStates
    /\ infoCache = <<>>
    /\ catsCache = <<>>
    /\ colorCache = <<>>
    /\ kindCache = <<>>
    /\ mapping \in ExtractMappings
    /\ lowPriority = {}
    /\ \E it \in SendItems : product_data = extract_item_data_with_inheritance(it)
    /\ card_cat_id = None
    /\ card = <<>>
    /\ user_changes \in ChangeRequests
    /\ pages = 0 /\ fetchedRows = FALSE /\ calls = <<>> /\ response = ""
    /\ IdleSimilar /\ IdleCategory /\ IdleExtract
    /\ IdleCall /\ IdleThreads /\ IdleAssortment
    /\ IdleBarcodes

\* apply_user_changes(product_data, user_changes)[0]; it works on a copy
ApplyUserChanges ==
    /\ pc = "changes_call"
    /\ result' = apply_user_changes(product_data, user_changes)
    /\ pc' = "changes_done"
    /\ UNCHANGED <<barcodeVars, args, sendVars, assortmentVars, threadVars, similarVars,
                   configVars, categoryVars, registryVars, cardVars, extractVars>>

NextChanges == ApplyUserChanges

SpecChanges == InitChanges /\ [][NextChanges]_vars

(***************************************************************************)
(* C1                                                                      *)
(***************************************************************************)

C1_Case ==
    /\ pc = "similar_done"
    /\ value = W_KRASNYJ
    /\ preset = {W_KRASNYJ, W_SINIJ, W_KRASNOVATYJ}
    /\ threshold = 6

\* C1 (as stated): find_similar_values("КРАСНЫЙ", {"КРАСНЫЙ", "СИНИЙ",
\* "КРАСНОВАТЫЙ"}, 0.6) returns ["КРАСНОВАТЫЙ", "КРАСНЫЙ"].
C1_Original == C1_Case => similars = <<W_KRASNOVATYJ, W_KRASNYJ>>

\* C1 (amended): that call returns ["КРАСНЫЙ"] only: "красный" is not a
\* substring of "красноватый", nor the other way round.
C1_Amended == C1_Case => similars = <<W_KRASNYJ>>

C1_Witness == C1_Case /\ similars = <<W_KRASNYJ>>

(***************************************************************************)
(* C2                                                                      *)
(***************************************************************************)

\* the attribute ids of a card
AttrIds(c) == {c.good_attrs[i].attr_id : i \in 1..Len(c.good_attrs)}

\* the value of the attribute id of a card that has it
AttrValue(c, id) ==
    c.good_attrs[CHOOSE i \in 1..Len(c.good_attrs) : c.good_attrs[i].attr_id = id].attr_value

MandatoryIds ==
    {ATTR_COUNTRY, ATTR_FULL_NAME, ATTR_TRADEMARK, ATTR_TNVED_GROUP, ATTR_REGULATION}

\* a card was built from product data whose optional fields are all empty
C2_Case ==
    /\ pc = "card_done"
    /\ product_data.product_type = EMPTY
    /\ product_data.color = EMPTY
    /\ product_data.size = EMPTY
    /\ product_data.composition = EMPTY
    /\ product_data.article = EMPTY
    /\ product_data.permit_docs = EMPTY
    /\ product_data.target_gender = EMPTY

\* C2 (as stated): with all optional fields empty, good_attrs has exactly
\* five entries, the ids 2630, 2478, 2504, 3959 and 13836, whatever the name
\* and the tariff code are.
C2_Original ==
    C2_Case => (Len(card.good_attrs) = 5 /\ AttrIds(card) = MandatoryIds)

\* C2 (amended): with all optional fields empty, good_attrs has one entry for
\* each of 2630, 2478, 2504 and 13836, the entry 3959 exactly when the tariff
\* code is not empty, the entry 13933 exactly when the tariff code has 10
\* characters, the gender entry 14013 exactly when the name is not empty, and
\* no other entry.
C2_Amended ==
    C2_Case =>
        /\ AttrIds(card) =
              {ATTR_COUNTRY, ATTR_FULL_NAME, ATTR_TRADEMARK, ATTR_REGULATION}
              \cup (IF product_data.tnved # EMPTY THEN {ATTR_TNVED_GROUP} ELSE {})
              \cup (IF Len(product_data.tnved) = 10 THEN {ATTR_TNVED_DETAILED} ELSE {})
              \cup (IF product_data.name # EMPTY THEN {ATTR_GENDER} ELSE {})
        /\ Len(card.good_attrs) = Cardinality(AttrIds(card))

\* a name without a gender word and a 10-digit code give seven entries
C2_Witness ==
    /\ C2_Case
    /\ product_data.name = NM_SHORTS
    /\ product_data.tnved = T_6204631800
    /\ Len(card.good_attrs) = 7
    /\ AttrValue(card, ATTR_GENDER) = G_UNISEX

(***************************************************************************)
(* C3                                                                      *)
(***************************************************************************)

C4_CardTariff ==
    pc = "card_done" =>
        card.tnved =
            (IF card.categories[1] \in {214943, 215009}
             THEN product_data.tnved
             ELSE IF Len(product_data.tnved) >= 4
                  THEN SubSeq(product_data.tnved, 1, 4)
                  ELSE product_data.tnved)

\* "6204631800" is kept whole in a card whose category resolved to 215009
C4_Witness ==
    /\ pc = "card_done"
    /\ card_cat_id = None
    /\ product_data.tnved = T_6204631800
    /\ card.categories = <<CAT_SEWN_B>>
    /\ card.tnved = T_6204631800

\* "6204631800" is cut to "6204" in a card of another category
C4_WitnessCut ==
    /\ pc = "card_done"
    /\ product_data.tnved = T_6204631800
    /\ card.categories = <<CAT_TROUSERS>>
    /\ card.tnved = T_6204

(***************************************************************************)
(* C6                                                                      *)
(***************************************************************************)

\* the ids of the candidate set of the tariff code
CandidateIds == {_mapping_for(mapping, tnved)[i].id :
                    i \in 1..Len(_mapping_for(mapping, tnved))}

\* C6: whenever the candidate set of the tariff code holds an id outside the
\* inactive deny-list, choose_category (with or without a product kind)
\* returns no id of the deny-list.
C6_NeverInactive ==
    (pc = "category_done" /\ CandidateIds \ INACTIVE_CATEGORIES # {})
        => chosen \notin INACTIVE_CATEGORIES

\* the inactive category is a candidate and would score best for the kind
\* "блузки", and an active alternative is returned
C6_Witness ==
    /\ pc = "category_done"
    /\ product_type = K_bluzki
    /\ CAT_SHIRTS_OLD \in CandidateIds
    /\ CandidateIds \ INACTIVE_CATEGORIES # {}
    /\ chosen \in CandidateIds \ INACTIVE_CATEGORIES

(***************************************************************************)
(* C7                                                                      *)
(***************************************************************************)

\* the tariff code is a 10-digit code that is no key, and its group is a key
C7_Case ==
    /\ pc = "category_done"
    /\ Len(tnved) = 10
    /\ tnved \notin DOMAIN mapping
    /\ Prefix(tnved, 4) \in DOMAIN mapping

\* C7: for a 10-digit code that is no key of the table while its 4-digit group
\* is, the candidates are the group's entry, and choose_category returned for
\* the code what it returns for the group key, whatever the kind.
C7_GroupFallback ==
    C7_Case =>
        /\ _mapping_for(mapping, tnved) = mapping[Prefix(tnved, 4)]
        /\ chosen = choose_category(mapping, lowPriority, Prefix(tnved, 4),
                                    product_type)

C7_Witness ==
    /\ C7_Case
    /\ tnved = T_6204990000
    /\ product_type = K_bryuki
    /\ chosen = CAT_TROUSERS

(***************************************************************************)
(* C8                                                                      *)
(***************************************************************************)

\* the fields inherited through a custom attribute, with the attribute's name
AttributeFields ==
    {[field |-> "composition", key |-> A_composition],
     [field |-> "permit_docs", key |-> A_permit_docs],
     [field |-> "brand_nk", key |-> A_brand_nk],
     [field |-> "product_type", key |-> A_product_type],
     [field |-> "target_gender", key |-> A_target_gender],
     [field |-> "size_type", key |-> A_size_type]}

\* color and size, inherited when no characteristic matches
DimensionFields ==
    {[field |-> "color", key |-> A_color, keywords |-> ColorKeywords],
     [field |-> "size", key |-> A_size, keywords |-> SizeKeywords]}

\* the coerced value of the attribute in a list, '' when it is not there
ValueIn(attrs, key) ==
    IF key \in DOMAIN AttributesOf(attrs) THEN AttributesOf(attrs)[key] ELSE EMPTY

PlaceholderTokens == {S_None, S_nan, S_NO}

Usable(v) == v # EMPTY /\ v \notin PlaceholderTokens

\* the law as stated, for the variant's value v, the parent's value w and
\* the result r
LawAsStated(v, w, r) ==
    /\ (~Usable(v) /\ w # EMPTY) => r = w
    /\ Usable(v) => r = v

\* the law of the code: the variant's value when it is not empty, else the
\* parent's; cleared when it is a placeholder token and the field is one the
\* final pass covers
LawOfCode(v, w, r, cleared) ==
    r = IF cleared /\ (IF v # EMPTY THEN v ELSE w) \in PlaceholderTokens
        THEN EMPTY
        ELSE (IF v # EMPTY THEN v ELSE w)

\* a variant with a linked parent was extracted
C8_Case == Len(extracted) > 0 /\ HasOtherParent(item)

NoCharacteristic(f) == FromCharacteristics(item.characteristics, f.keywords) = EMPTY

\* C8 (as stated): for every inherited field of a variant with a linked
\* parent, a variant's absent, empty or placeholder value gives the parent's
\* non-empty value, and a variant's usable value gives the variant's value.
C8_Original ==
    C8_Case =>
        /\ LawAsStated(item.article, item.parent.article, extracted[1].article)
        /\ \A f \in AttributeFields :
              LawAsStated(ValueIn(item.attributes, f.key),
                          ValueIn(item.parent.attributes, f.key),
                          extracted[1][f.field])
        /\ \A f \in DimensionFields :
              NoCharacteristic(f) =>
                  LawAsStated(ValueIn(item.attributes, f.key),
                              ValueIn(item.parent.attributes, f.key),
                              extracted[1][f.field])

\* C8 (amended): for every inherited field of a variant with a linked parent
\* (color and size when no characteristic matches), the value selected is the
\* variant's coerced value when that is not empty, whatever it is, and else
\* the parent's coerced value; the result is the selected value, except that
\* a selected placeholder token ("None", "nan", "Нет") is cleared to '' in
\* every field but the brand.  A variant's placeholder is not replaced by the
\* parent's value.
C8_Amended ==
    C8_Case =>
        /\ LawOfCode(item.article, item.parent.article, extracted[1].article, TRUE)
        /\ \A f \in AttributeFields :
              LawOfCode(ValueIn(item.attributes, f.key),
                        ValueIn(item.parent.attributes, f.key),
                        extracted[1][f.field], f.field # "brand_nk")
        /\ \A f \in DimensionFields :
              NoCharacteristic(f) =>
                  LawOfCode(ValueIn(item.attributes, f.key),
                            ValueIn(item.parent.attributes, f.key),
                            extracted[1][f.field], TRUE)

\* the variant's composition is the boolean false, the parent has one, and
\* the result has none
C8_Witness ==
    /\ C8_Case
    /\ ValueIn(item.attributes, A_composition) = S_NO
    /\ ValueIn(item.parent.attributes, A_composition) = V_parent
    /\ extracted[1].composition = EMPTY

\* the variant has no composition and the result has the parent's
C8_WitnessInherited ==
    /\ C8_Case
    /\ ValueIn(item.attributes, A_composition) = EMPTY
    /\ ValueIn(item.parent.attributes, A_composition) = V_parent
    /\ extracted[1].composition = V_parent

(***************************************************************************)
(* C9                                                                      *)
(***************************************************************************)

TextFields ==
    {"name", "article", "composition", "permit_docs", "brand_nk", "color", "size",
     "product_type", "tnved", "target_gender", "size_type"}

\* '' or a trimmed string that is no placeholder token
WellFormed(v) == v = EMPTY \/ (Strip(v) = v /\ v \notin PlaceholderTokens)

\* C9 (as stated): every text field of a returned record is '' or a
\* non-empty string without leading or trailing whitespace, and never "None",
\* "nan" or "Нет".
C9_FieldsWellFormed ==
    \A i \in 1..Len(extracted) : \A f \in TextFields : WellFormed(extracted[i][f])

\* the brand attribute is the boolean false and the record's brand is "Нет"
C9_BrandPlaceholder ==
    /\ Len(extracted) > 0
    /\ ValueIn(item.attributes, A_brand_nk) = S_NO
    /\ extracted[1].brand_nk = S_NO

\* a padded value is returned with its padding
C9_Untrimmed ==
    /\ Len(extracted) > 0
    /\ extracted[1].composition = V_padded

(***************************************************************************)
(* C10                                                                     *)
(***************************************************************************)

\* C10: two calls in a row on the same item return equal records, flags and
\* suggestion lists included, whatever the registry answers at the second
\* call; and no call changes the item or its parent.
C10_Idempotent ==
    /\ [](pc = "extract_done" => extracted[1] = extracted[2])
    /\ [][item' = item]_vars

\* the color was looked up, the registry's preset is no longer the one
\* remembered, and the two records are equal
C10_Witness ==
    /\ pc = "extract_done"
    /\ extracted[2].color # EMPTY
    /\ extracted[2].color_suggestions # <<>>
    /\ RegistryColors # colorCache[1]
    /\ extracted[1] = extracted[2]

(***************************************************************************)
(* C5                                                                      *)
(***************************************************************************)

\* the set of the outbound calls made so far
CallsMade == {calls[i] : i \in 1..Len(calls)}

\* the request has the product's data, and the data has no tariff code
C5_Case == DOMAIN product_data # {} /\ product_data.tnved = EMPTY

\* C5 (as stated): a request that ends with the missing-tariff rejection has
\* made no outbound call.
C5_Original == response = "no_tnved" => calls = <<>>

\* C5 (amended): when the product's data has a name and no tariff code the
\* request ends with the missing-tariff rejection; in such a request no call
\* to the registry's feed endpoint and no call that reads or writes an
\* inventory entity is made, but the reads that load the product come before
\* the check: the inventory's connection test and assortment pages, and the
\* registry metadata the extractor looks up.
C5_Amended ==
    /\ C5_Case => CallsMade \subseteq ReadCalls
    /\ (C5_Case /\ product_data.name # EMPTY) => response = "no_tnved"
    /\ response = "no_tnved" =>
          /\ C5_Case
          /\ calls[1] = "ms_context"
          /\ "ms_assortment" \in CallsMade

\* a rejection after the inventory and the registry's metadata were read
C5_Witness ==
    /\ response = "no_tnved"
    /\ pc = "send_done"
    /\ "ms_assortment" \in CallsMade
    /\ "nk_attributes" \in CallsMade

(***************************************************************************)
(* C11                                                                     *)
(***************************************************************************)

\* determine_gender has returned for a product without a target gender
C11_Case == pc = "gender_done" /\ product_data.target_gender = EMPTY

\* C11: when target_gender is empty, determine_gender decides by the key
\* words the product name contains: a female key word gives "ЖЕНСКИЙ", a
\* male key word gives "МУЖСКОЙ", a child key word gives "БЕЗ УКАЗАНИЯ
\* ПОЛА", any other non-empty name gives "УНИВЕРСАЛЬНЫЙ (УНИСЕКС)", and an
\* empty name gives no gender (None, modelled as EMPTY).
C11_ByNameKeyword ==
    C11_Case =>
        /\ HasAny(FemaleWords, Lower(product_data.name)) => result = G_FEMALE
        /\ (/\ HasAny(MaleWords, Lower(product_data.name))
            /\ ~HasAny(FemaleWords, Lower(product_data.name))) => result = G_MALE
        /\ (/\ HasAny(ChildWords, Lower(product_data.name))
            /\ ~HasAny(FemaleWords, Lower(product_data.name))
            /\ ~HasAny(MaleWords, Lower(product_data.name))) => result = G_NONE
        /\ (/\ product_data.name # EMPTY
            /\ ~HasAny(FemaleWords \cup MaleWords \cup ChildWords,
                       Lower(product_data.name))) => result = G_UNISEX
        /\ product_data.name = EMPTY => result = EMPTY

\* the example of the claim: "Платье женское" gives "ЖЕНСКИЙ"
C11_DressExample ==
    /\ C11_Case
    /\ product_data.name = GN_dress_f
    /\ result = G_FEMALE

\* a name with the female key word "women" is answered "МУЖСКОЙ"
C11_WomenIsMale ==
    /\ C11_Case
    /\ product_data.name = GN_women
    /\ result = G_MALE

(***************************************************************************)
(* C12                                                                     *)
(***************************************************************************)

\* the call in progress has an empty value or no category id
C12_Case ==
    /\ pc = "validate_call"
    /\ \/ args.value = EMPTY
       \/ args.fn = "validate_product_kind" /\ args.cat_id = None

\* C12: validate_color with an empty value, and validate_product_kind with
\* an empty value or a missing category id, return (False, empty set), make
\* no registry call and add no entry to the vocabulary cache.
C12_EmptyInputNoCall ==
    [][C12_Case =>
          /\ result' = <<FALSE, {}>>
          /\ calls' = calls
          /\ colorCache' = colorCache
          /\ kindCache' = kindCache]_vars

\* such a call has returned while a vocabulary is still not in the cache
\* and another has been fetched before
C12_Witness ==
    /\ pc = "validate_idle"
    /\ args # <<>> /\ args.fn = "validate_product_kind"
    /\ args.value # EMPTY /\ args.cat_id = None
    /\ result = <<FALSE, {}>>
    /\ colorCache # <<>> /\ kindCache = <<>>

(***************************************************************************)
(* C13                                                                     *)
(***************************************************************************)

\* no registry request is made twice
C13_NoRefetch == \A i, j \in DOMAIN calls : calls[i] = calls[j] => i = j

\* an entry of the vocabulary cache stays as it is
C13_EntriesKept ==
    /\ colorCache # <<>> => colorCache' = colorCache
    /\ \A k \in DOMAIN kindCache :
          k \in DOMAIN kindCache' /\ kindCache'[k] = kindCache[k]

\* a call that looked a vocabulary up returned the cached one
C13_FromCache ==
    (pc = "validate_idle" /\ result # NoResult /\ args.value # EMPTY) =>
        /\ args.fn = "validate_color" =>
              colorCache # <<>> /\ result[2] = colorCache[1]
        /\ (args.fn = "validate_product_kind" /\ args.cat_id # None) =>
              /\ args.cat_id \in DOMAIN kindCache
              /\ result[2] = kindCache[args.cat_id]

\* C13: in sequential execution, over any sequence of validate_color and
\* validate_product_kind calls, the registry is asked at most once per
\* vocabulary key (the colours, each category id); after the first fetch of
\* a key every later call for it returns the same vocabulary, with no new
\* fetch.
C13_FetchedOncePerKey ==
    /\ []C13_NoRefetch
    /\ [][C13_EntriesKept]_vars
    /\ []C13_FromCache

\* a call returned the vocabulary remembered for its category although the
\* registry has another one by now
C13_Witness ==
    /\ pc = "validate_idle" /\ result # NoResult
    /\ args.fn = "validate_product_kind" /\ args.value # EMPTY
    /\ args.cat_id = DEFAULT_CAT_ID
    /\ DEFAULT_CAT_ID \in DOMAIN kindCache
    /\ kindCache[DEFAULT_CAT_ID] # RegistryKinds(DEFAULT_CAT_ID)
    /\ result[2] = kindCache[DEFAULT_CAT_ID]
    /\ Len(calls) = 3

(***************************************************************************)
(* C14                                                                     *)
(***************************************************************************)

\* C14: the vocabulary cache is written at most once per key, and the
\* registry asked at most once per key, even when two requests validate
\* against the same still-uncached key at the same time.
C14_WrittenOncePerKey ==
    /\ \A i, j \in DOMAIN cacheWrites : cacheWrites[i] = cacheWrites[j] => i = j
    /\ \A i, j \in DOMAIN calls : calls[i] = calls[j] => i = j

\* both requests fetched the kinds of one category and stored them, and
\* they returned different vocabularies
C14_BothWrote ==
    /\ \A t \in Threads : threads[t].at = "returned" /\ threads[t].key = DEFAULT_CAT_ID
    /\ cacheWrites = <<DEFAULT_CAT_ID, DEFAULT_CAT_ID>>
    /\ Len(calls) = 2
    /\ threads[1].preset # threads[2].preset

(***************************************************************************)
(* C15                                                                     *)
(***************************************************************************)

\* some request of get_all_assortment for a page failed
PageFetchFailed ==
    \E i \in DOMAIN calls :
        calls[i].call = "ms_assortment" /\ calls[i].outcome # "ok"

\* C15: if any page fetch fails (non-200 status or exception), on the
\* first page or a later one, get_all_assortment returns None; rows of the
\* earlier pages are never returned as if they were the whole catalogue.
C15_FailureGivesNoData ==
    (pc = "assortment_done" /\ PageFetchFailed) => result = NoData

\* the second page failed and the rows of the first were returned as the
\* catalogue, which has more
C15_PartialReturned ==
    /\ pc = "assortment_done" /\ PageFetchFailed
    /\ result.kind = "data"
    /\ Len(result.rows) = PageLimit
    /\ inventory > PageLimit

\* the first page failed and an empty catalogue was returned
C15_EmptyReturned ==
    /\ pc = "assortment_done" /\ PageFetchFailed
    /\ result.kind = "data" /\ result.rows = <<>>
    /\ inventory > 0

(***************************************************************************)
(* C16                                                                     *)
(***************************************************************************)

\* the requests of one kind in the log
CallsOf(call) == {i \in DOMAIN calls : calls[i].call = call}

\* send_card_to_nk has returned
C16_Case == pc = "client_done" /\ args.fn = "send_card_to_nk"

\* C16: send_card_to_nk makes exactly one POST of the card and never
\* repeats it; when the answer is no success status, or has no result or
\* no feed id, or the request raises, it returns success = False with an
\* error text and makes no status poll.
C16_OnePostNoPollOnFailure ==
    /\ Cardinality(CallsOf("nk_feed_post")) <= 1
    /\ C16_Case =>
          /\ Cardinality(CallsOf("nk_feed_post")) = 1
          /\ calls[1].call = "nk_feed_post"
          /\ calls[1].outcome # "ok" =>
                /\ result.success = FALSE
                /\ result.error # ""
                /\ CallsOf("nk_feed_status") = {}
                /\ Len(calls) = 1

\* the answer had a result without a feed id
C16_Witness ==
    /\ C16_Case
    /\ calls = <<[call |-> "nk_feed_post", outcome |-> "no_feed_id"]>>
    /\ result = Failure("no feed_id")

\* the POST was accepted and the status was polled
C16_WitnessPolled ==
    /\ C16_Case
    /\ Len(calls) = 2 /\ calls[2].call = "nk_feed_status"
    /\ result.success = TRUE

(***************************************************************************)
(* C19                                                                     *)
(***************************************************************************)

\* C19: no remote I/O error (timeout, non-success status, malformed JSON)
\* in a client method leaves it as an exception; every client method
\* returns a failure or "no data" value instead.
C19_NoExceptionEscapes ==
    pc = "client_done" => result # Raised("remote")

\* get_product_attributes raised after a timeout
C19_AttributesRaised ==
    /\ pc = "client_done" /\ args.fn = "get_product_attributes"
    /\ calls = <<[call |-> "ms_attributes", outcome |-> "timeout"]>>
    /\ result = Raised("remote")

\* create_custom_field raised after a timeout of its request
C19_CreateFieldRaised ==
    /\ pc = "client_done" /\ args.fn = "create_custom_field"
    /\ args.field = "boolean"
    /\ result = Raised("remote")

(***************************************************************************)
(* C17                                                                     *)
(***************************************************************************)

\* a field apply_user_changes may change: one of the three, with an
\* override that has a value
C17_Overridden(f) ==
    /\ f \in {"color", "product_type", "size"}
    /\ f \in DOMAIN user_changes
    /\ user_changes[f] # EMPTY

\* C17: apply_user_changes changes only the fields color, product_type and
\* size, and only for overrides whose value is non-empty; every other field
\* of the product data (validation flags and suggestion lists included) and
\* every field whose override is empty or is not one of the three is the
\* same in the result as in the input, and the input is not mutated.
C17_OnlyEditableFieldsChange ==
    [][pc = "changes_call" =>
          /\ product_data' = product_data
          /\ DOMAIN result' = DOMAIN product_data
          /\ \A f \in DOMAIN product_data :
                result'[f] = IF C17_Overridden(f) THEN user_changes[f]
                             ELSE product_data[f]]_vars

\* changes of a colour, of a size and of the name were asked for a product
\* whose colour is not in the vocabulary: colour and size changed, name and
\* the colour's validation flag did not
C17_Witness ==
    /\ pc = "changes_done"
    /\ DOMAIN user_changes = {"color", "size", "name"}
    /\ product_data.color # EMPTY /\ product_data.color_valid = FALSE
    /\ result.color = user_changes.color /\ result.color # product_data.color
    /\ result.size = user_changes.size
    /\ result.name = product_data.name /\ result.name # user_changes.name
    /\ result.color_valid = FALSE

(***************************************************************************)
(* C18                                                                     *)
(***************************************************************************)

\* create_card_data has returned from a call without a category id
C18_Case == pc = "card_done" /\ card_cat_id = None

\* the chain as the claim words it: tariff code and product kind, then the
\* tariff code alone, then the product kind alone, then the default
C18_StatedChain(t, p) == OrDefault(ByKind(ByCode(ByCodeAndKind(t, p), t), p))

\* C18 as worded: the card of a call without a category id has exactly one
\* category, a real id, which is the result of the chain tariff code +
\* product kind, tariff code only, product kind only, default.
C18_Original ==
    C18_Case =>
        /\ Len(card.categories) = 1
        /\ card.categories[1] # None
        /\ card.categories[1] =
              C18_StatedChain(Strip(product_data.tnved),
                              Strip(product_data.product_type))

\* the category the key word of the name gives, None when that stage is
\* not taken or finds nothing
C18_ByName(t, p, n) ==
    IF UsesName(ByCodeAndKind(t, p), t, n)
    THEN determine_category_by_product_type(t, NameKeyword(n))
    ELSE None

\* C18 amended: the card of a call without a category id has exactly one
\* category and it is a real id.  It is the category found for the tariff
\* code and a key word of the product name (trousers, dress, blouse, skirt,
\* jacket, jumper) when tariff code + product kind gave none and that
\* lookup gives one; otherwise it is the result of the chain tariff code +
\* product kind, tariff code only, product kind only, default.  With an
\* empty tariff code and an empty product kind it is the default id.
C18_Amended ==
    C18_Case =>
        /\ Len(card.categories) = 1
        /\ card.categories[1] # None
        /\ card.categories[1] =
              IF C18_ByName(Strip(product_data.tnved),
                            Strip(product_data.product_type),
                            Lower(Strip(product_data.name))) # None
              THEN C18_ByName(Strip(product_data.tnved),
                              Strip(product_data.product_type),
                              Lower(Strip(product_data.name)))
              ELSE C18_StatedChain(Strip(product_data.tnved),
                                   Strip(product_data.product_type))
        /\ (Strip(product_data.tnved) = EMPTY
              /\ Strip(product_data.product_type) = EMPTY)
           => card.categories[1] = DEFAULT_NK_CATEGORY

\* the name's key word decided, against the tariff code alone
C18_Witness ==
    /\ C18_Case
    /\ C18_ByName(Strip(product_data.tnved), Strip(product_data.product_type),
                  Lower(Strip(product_data.name))) # None
    /\ card.categories[1] #
          C18_StatedChain(Strip(product_data.tnved),
                          Strip(product_data.product_type))

\* nothing was found and the card has the default category
C18_WitnessDefault ==
    /\ C18_Case
    /\ product_data.tnved = EMPTY /\ product_data.product_type # EMPTY
    /\ mapping # MakeMapping(<<>>, <<>>)
    /\ registry = RegistryUp
    /\ card.categories = <<DEFAULT_NK_CATEGORY>>

(***************************************************************************)
(* C20                                                                     *)
(***************************************************************************)

\* choose_category has returned from a call without a product kind
C20_Case == pc = "category_done" /\ product_type = EMPTY

\* the positions of the candidates that are not low-priority
C20_NotLow(cats) == {i \in 1..Len(cats) : cats[i].id \notin lowPriority}

\* C20 as worded: without a product kind choose_category returns the first
\* candidate, in table order, that is not low-priority; the first candidate
\* when all are low-priority; None only when the tariff code and its group
\* have no candidates.
C20_Original ==
    C20_Case =>
        chosen =
            IF _mapping_for(mapping, tnved) = <<>> THEN None
            ELSE IF C20_NotLow(_mapping_for(mapping, tnved)) # {}
            THEN _mapping_for(mapping, tnved)[
                     SetMin(C20_NotLow(_mapping_for(mapping, tnved)))].id
            ELSE _mapping_for(mapping, tnved)[1].id

\* the positions choose_category chooses among: the candidates outside the
\* inactive deny-list, or all of them when all are on it
C20_Usable(cats) ==
    IF \A i \in 1..Len(cats) : cats[i].id \in INACTIVE_CATEGORIES
    THEN 1..Len(cats)
    ELSE {i \in 1..Len(cats) : cats[i].id \notin INACTIVE_CATEGORIES}

\* C20 amended: without a product kind choose_category first sets aside the
\* candidates of the inactive deny-list (unless all are on it) and returns,
\* of the rest in table order, the first that is not low-priority, or the
\* first of the rest when all of them are low-priority; it returns None
\* exactly when the tariff code and its 4-digit group have no candidates.
C20_Amended ==
    C20_Case =>
        /\ chosen = None <=> _mapping_for(mapping, tnved) = <<>>
        /\ _mapping_for(mapping, tnved) # <<>> =>
              chosen =
                  IF C20_Usable(_mapping_for(mapping, tnved))
                         \cap C20_NotLow(_mapping_for(mapping, tnved)) # {}
                  THEN _mapping_for(mapping, tnved)[
                           SetMin(C20_Usable(_mapping_for(mapping, tnved))
                                  \cap C20_NotLow(_mapping_for(mapping, tnved)))].id
                  ELSE _mapping_for(mapping, tnved)[
                           SetMin(C20_Usable(_mapping_for(mapping, tnved)))].id

\* the first candidate is the only one that is not low-priority and it is
\* inactive: the second, low-priority one is returned
C20_Witness ==
    /\ C20_Case
    /\ Len(_mapping_for(mapping, tnved)) = 2
    /\ _mapping_for(mapping, tnved)[1].id = CAT_SHIRTS_OLD
    /\ _mapping_for(mapping, tnved)[2].id \in lowPriority
    /\ chosen = _mapping_for(mapping, tnved)[2].id

\* every candidate is low-priority and the first is returned
C20_WitnessAllLow ==
    /\ C20_Case
    /\ Len(_mapping_for(mapping, tnved)) = 2
    /\ C20_NotLow(_mapping_for(mapping, tnved)) = {}
    /\ chosen = _mapping_for(mapping, tnved)[1].id

(***************************************************************************)
(* C21: choose_category with a product kind                                *)
(***************************************************************************)

C21_Case ==
    /\ pc = "category_done"
    /\ product_type # EMPTY
    /\ _mapping_for(mapping, tnved) # <<>>

\* the score of candidate c for the product kind asked
C21_Score(c) == calculate_match_score(tokenize(product_type), c.name, c.id)

\* the positions of cats, among S, that score above 0
C21_Positive(cats, S) == {i \in S : C21_Score(cats[i]).num > 0}

\* the position, among S, of the best score; the earliest of equal scores
C21_Best(cats, S) ==
    CHOOSE i \in S :
        \A j \in S \ {i} :
            /\ ~ScoreGreater(C21_Score(cats[j]), C21_Score(cats[i]))
            /\ j < i => ScoreGreater(C21_Score(cats[i]), C21_Score(cats[j]))

\* the policy of the claim applied to the candidates of cats at positions S
C21_Policy(cats, S) ==
    IF C21_Positive(cats, S) = {}
    THEN choose_category(mapping, lowPriority, tnved, EMPTY)
    ELSE IF \A i \in C21_Positive(cats, S) : cats[i].id \in lowPriority
    THEN cats[C21_Best(cats, C21_Positive(cats, S))].id
    ELSE cats[C21_Best(cats, {i \in C21_Positive(cats, S) :
                                  cats[i].id \notin lowPriority})].id

C21_Scored(cats) ==
    IF \A i \in 1..Len(cats) : cats[i].id \in INACTIVE_CATEGORIES
    THEN 1..Len(cats)
    ELSE {i \in 1..Len(cats) : cats[i].id \notin INACTIVE_CATEGORIES}

C21_WitnessLowSkipped ==
    /\ C21_Case
    /\ Len(_mapping_for(mapping, tnved)) = 2
    /\ C21_Score(_mapping_for(mapping, tnved)[2]).num > 0
    /\ ScoreGreater(C21_Score(_mapping_for(mapping, tnved)[1]),
                    C21_Score(_mapping_for(mapping, tnved)[2]))
    /\ _mapping_for(mapping, tnved)[1].id \in lowPriority
    /\ chosen = _mapping_for(mapping, tnved)[2].id

\* an inactive candidate is the only one that scores, and the other is returned
C21_WitnessInactive ==
    /\ C21_Case
    /\ Len(_mapping_for(mapping, tnved)) = 2
    /\ _mapping_for(mapping, tnved)[1].id \in INACTIVE_CATEGORIES
    /\ C21_Score(_mapping_for(mapping, tnved)[1]).num > 0
    /\ chosen = _mapping_for(mapping, tnved)[2].id

(***************************************************************************)
(* C22: the two regimes of extract_tnved                                   *)
(***************************************************************************)

\* some category of the item, of its parent or of a category attribute of
\* either requires the detailed code
C22_RequiresDetailed ==
    \/ \E i \in 1..Len(item.categories) :
          item.categories[i] \in CATEGORIES_WITH_FULL_TNVED
    \/ /\ item.parent.present
       /\ \E i \in 1..Len(item.parent.categories) :
             item.parent.categories[i] \in CATEGORIES_WITH_FULL_TNVED
    \/ \E i \in 1..Len(item.attributes \o item.parent.attributes) :
          /\ (item.attributes \o item.parent.attributes)[i].name = A_category
          /\ (item.attributes \o item.parent.attributes)[i].value.t = "cat"
          /\ (item.attributes \o item.parent.attributes)[i].value.cat_id
                 \in CATEGORIES_WITH_FULL_TNVED

\* the positions, among the item's attributes and then the parent's, of the
\* attributes of the id that have a value which is no placeholder
C22_Present(id) ==
    {i \in 1..Len(item.attributes \o item.parent.attributes) :
        /\ (item.attributes \o item.parent.attributes)[i].attr_id = id
        /\ (item.attributes \o item.parent.attributes)[i].value.t = "str"
        /\ (item.attributes \o item.parent.attributes)[i].value.s
               \notin {EMPTY, S_None}}

\* the value of the first of them, the empty string when there is none
C22_AttrValue(id) ==
    IF C22_Present(id) = {} THEN EMPTY
    ELSE (item.attributes \o item.parent.attributes)[SetMin(C22_Present(id))].value.s

C22_WitnessGroupRegime ==
    /\ pc = "tnved_done"
    /\ ~C22_RequiresDetailed
    /\ C22_Present(TNVED_DETAILED_ATTR_ID) # {}
    /\ item.tnved = EMPTY
    /\ result = EMPTY

\* the detailed regime with the 10-digit attribute on the parent only
C22_WitnessFromParent ==
    /\ pc = "tnved_done"
    /\ C22_RequiresDetailed
    /\ item.tnved # EMPTY
    /\ item.attributes = <<>>
    /\ result = T_6204990000

(***************************************************************************)
(* C23: the result of find_similar_values                                  *)
(***************************************************************************)

\* w contains the value or is contained in it, letter case aside
C23_Related(w) == In(Lower(value), Lower(w)) \/ In(Lower(w), Lower(value))

\* C23: whatever the value, the vocabulary and the threshold, the list
\* find_similar_values returns is sorted lexicographically, has at most 5
\* entries, all distinct, all members of the vocabulary, each containing the
\* value or contained in it without regard to letter case; it is the list
\* returned for every other threshold, and it is empty when the value or the
\* vocabulary is empty.
C23_SortedBoundedHits ==
    pc = "similar_done" =>
        /\ Len(similars) <= 5
        /\ \A i \in 1..Len(similars) :
              similars[i] \in preset /\ C23_Related(similars[i])
        /\ \A i, j \in 1..Len(similars) :
              i < j => StrLess(similars[i], similars[j])
        /\ \A t \in Thresholds :
              similars = find_similar_values(value, preset, t)
        /\ (value = EMPTY \/ preset = {}) => similars = <<>>

\* more than 5 words of the vocabulary hold the value, written in another
\* letter case, and 5 are returned under the threshold 0.9
C23_Witness ==
    /\ pc = "similar_done"
    /\ threshold = 9
    /\ value = W_KRASN
    /\ Cardinality({w \in preset : C23_Related(w)}) > 5
    /\ Len(similars) = 5

\* the value is longer than the word returned
C23_WitnessContained ==
    /\ pc = "similar_done"
    /\ value = W_Krasnyj
    /\ similars = <<W_KRASN, W_KRASNYJ>>

(***************************************************************************)
(* C24: get_all_assortment ends and returns every row                      *)
(***************************************************************************)

\* the requests for a page, in the order they were made
C24_PageCalls == SelectSeq(calls, LAMBDA c : c.call = "ms_assortment")

\* the page of request c is the last one: it failed, or it has fewer rows
\* than the limit (none included)
C24_LastPage(c) == c.outcome # "ok" \/ inventory - c.offset < PageLimit

\* get_all_assortment has returned after asking for pages
C24_Returned == pc = "assortment_done" /\ C24_PageCalls # <<>>

\* C24: with finitely many rows in the inventory system get_all_assortment
\* terminates; the pages it requests are those at the offsets 0, limit,
\* 2*limit, ... in this order; it stops at the first page that is empty,
\* failed or shorter than the limit; and when every fetch succeeded it returns
\* every remote row exactly once, in remote order.
C24_TerminatesWithEveryRow ==
    /\ <>(pc = "assortment_done")
    /\ [](\A k \in 1..Len(C24_PageCalls) :
              C24_PageCalls[k].offset = (k - 1) * PageLimit)
    /\ [](\A k \in 1..(Len(C24_PageCalls) - 1) :
              ~C24_LastPage(C24_PageCalls[k]))
    /\ [](C24_Returned => C24_LastPage(C24_PageCalls[Len(C24_PageCalls)]))
    /\ []((C24_Returned /\ \A i \in DOMAIN calls : calls[i].outcome = "ok")
              => result = [kind |-> "data",
                           rows |-> [i \in 1..inventory |-> i]])

\* several full pages and a shorter last one were fetched and every row was
\* returned
C24_Witness ==
    /\ C24_Returned
    /\ \A i \in DOMAIN calls : calls[i].outcome = "ok"
    /\ Len(C24_PageCalls) >= 3
    /\ inventory % PageLimit # 0
    /\ Len(result.rows) = inventory

\* the rows fill the pages exactly and one more, empty page was fetched
C24_WitnessEmptyLastPage ==
    /\ C24_Returned
    /\ \A i \in DOMAIN calls : calls[i].outcome = "ok"
    /\ inventory > 0 /\ inventory % PageLimit = 0
    /\ Len(C24_PageCalls) = (inventory \div PageLimit) + 1
    /\ Len(result.rows) = inventory

(***************************************************************************)
(* C25: an accepted card keeps its feed id                                 *)
(***************************************************************************)

\* send_card_to_nk has returned and the registry had answered the POST with
\* success and a feed id
C25_Case ==
    /\ pc = "client_done" /\ args.fn = "send_card_to_nk"
    /\ PostedFeedIds # {}

\* C25: whenever the registry answered the card POST with success and a feed
\* id, the result of send_card_to_nk has success = True and that feed id,
\* whatever the status check that follows brought.
C25_AcceptedKeepsFeedId ==
    C25_Case => result.success = TRUE /\ result.feed_id \in PostedFeedIds

\* the card was accepted, the status request timed out, and the result is a
\* failure without feed id and without error text
C25_AcceptedReportedFailed ==
    /\ C25_Case
    /\ Len(calls) = 2
    /\ calls[2] = [call |-> "nk_feed_status", outcome |-> "timeout"]
    /\ result.success = FALSE
    /\ result.feed_id = NoFeedId
    /\ "error" \notin DOMAIN result

\* the card was accepted, the status was read, and the result has the feed id
C25_AcceptedWithStatus ==
    /\ C25_Case
    /\ calls[2] = [call |-> "nk_feed_status", outcome |-> "ok"]
    /\ result.success = TRUE
    /\ result.feed_id = "feed-2"

(***************************************************************************)
(* C26: a failed first fetch is remembered                                 *)
(***************************************************************************)

\* the fetch of thread u for its key has come back with the empty set, and
\* thread t has a call for the same key that has not yet begun its lookup
C26_Case(t, u) ==
    /\ t # u
    /\ threads[t].key = threads[u].key
    /\ threads[u].at \in {"store", "returned"}
    /\ threads[u].preset = {}
    /\ threads[t].at = "lookup"

\* C26: once the first fetch of a vocabulary has failed or brought no usable
\* attribute, every later validate_color / validate_product_kind call for
\* that key gets the empty set and makes no new registry call, whatever the
\* registry would answer by then.
C26_FailureRemembered ==
    [][\A t, u \in Threads :
          (C26_Case(t, u) /\ threads'[t] # threads[t]) =>
              /\ threads'[t].at = "returned"
              /\ threads'[t].preset = {}
              /\ calls' = calls]_vars

\* the first fetch of the kinds of a category brought nothing, a call that
\* came after it fetched them again, and the vocabulary that call returned
\* is the one in the cache
C26_RefetchedAfterFailure ==
    /\ threads[1].key = DEFAULT_CAT_ID /\ threads[2].key = DEFAULT_CAT_ID
    /\ threads[1].at = "returned" /\ threads[2].at = "returned"
    /\ threads[1].preset = {}
    /\ threads[2].preset # {}
    /\ Len(calls) = 2
    /\ cacheWrites = <<DEFAULT_CAT_ID, DEFAULT_CAT_ID>>
    /\ kindCache[DEFAULT_CAT_ID] = threads[2].preset

(***************************************************************************)
(* C27: update_product_gtin keeps the barcodes and adds the GTIN once      *)
(***************************************************************************)

\* the digits of a GTIN, left-padded with zeros to 14
C27_Normal(gtin) == zfill(Digits(gtin), 14)

\* the positions of the barcodes whose GTIN normalizes to the 14 digits g
C27_Holding(list, g) ==
    {i \in 1..Len(list) : "gtin" \in DOMAIN list[i] /\ C27_Normal(list[i].gtin) = g}

\* a step of update_product_gtin that sends a PUT
C27_Writes == pc = "gtin_put" /\ Len(calls') = Len(calls) + 1

\* the call reads the entity, which holds the GTIN already
C27_ReadsHeld ==
    /\ pc = "gtin_get"
    /\ calls'[Len(calls')].outcome = "ok"
    /\ C27_Holding(barcodes, C27_Normal(args.new_gtin)) # {}

\* C27: the barcode list update_product_gtin writes is the list it read, in
\* the same order, with one entry appended that holds the new GTIN as digits
\* only, left-padded with zeros to 14; when the item already has a barcode
\* whose GTIN normalizes to the same 14 digits it writes nothing and reports
\* success; so the calls never leave the GTIN on the item more often than it
\* was there, or once.
C27_AppendsOnce ==
    /\ [][C27_Writes =>
             /\ existing_barcodes = barcodes
             /\ calls'[Len(calls')].barcodes =
                    Append(barcodes, [gtin |-> C27_Normal(args.new_gtin)])]_vars
    /\ [][C27_ReadsHeld => pc' = "gtin_idle" /\ result'.success = TRUE]_vars
    /\ [][\A g \in {C27_Normal(i) : i \in GtinInputs} :
             Cardinality(C27_Holding(barcodes', g))
                 <= IF C27_Holding(barcodes, g) = {} THEN 1
                    ELSE Cardinality(C27_Holding(barcodes, g))]_vars

\* the empty GTIN was applied twice and the item has two barcodes without
\* digits more
C27_EmptyGtinAddedTwice ==
    /\ pc = "gtin_idle"
    /\ Len(calls) = 4
    /\ args.new_gtin = EMPTY
    /\ result.success = TRUE
    /\ Len(barcodes) >= 2
    /\ barcodes[Len(barcodes)] = [gtin |-> EMPTY]
    /\ barcodes[Len(barcodes) - 1] = [gtin |-> EMPTY]

\* neither the GTIN passed nor a GTIN of the item is the empty string
C27_NoEmptyGtin ==
    /\ args # <<>>
    /\ args.new_gtin # EMPTY
    /\ \A i \in 1..Len(barcodes) : [gtin |-> EMPTY] # barcodes[i]

\* C27 without the empty GTIN (it holds of the code)
C27_AppendsOnceNonEmpty ==
    /\ [][(C27_Writes /\ C27_NoEmptyGtin) =>
             /\ existing_barcodes = barcodes
             /\ calls'[Len(calls')].barcodes =
                    Append(barcodes, [gtin |-> C27_Normal(args.new_gtin)])]_vars
    /\ [][(C27_ReadsHeld /\ C27_NoEmptyGtin) =>
             pc' = "gtin_idle" /\ result'.success = TRUE]_vars
    /\ [][C27_NoEmptyGtin =>
             \A g \in {C27_Normal(i) : i \in GtinInputs} :
                 Cardinality(C27_Holding(barcodes', g))
                     <= IF C27_Holding(barcodes, g) = {} THEN 1
                        ELSE Cardinality(C27_Holding(barcodes, g))]_vars

\* the 13-digit GTIN was added, padded, after the barcode the item had, and
\* the same GTIN written with separators was then found to exist
C27_PaddedOnce ==
    /\ pc = "gtin_idle"
    /\ Len(calls) = 3
    /\ args.new_gtin = G_dashed
    /\ result.success = TRUE /\ result.message = "exists"
    /\ barcodes = <<[ean13 |-> E_13], [gtin |-> G_14]>>
    /\ calls[2].call = "ms_entity_put"

(***************************************************************************)
(* C28: process_products_and_variants lists each flagged product with its  *)
(* variants                                                                *)
(***************************************************************************)

\* the values the flag attribute counts as true
C28_TrueValues ==
    {[bool |-> TRUE], [number |-> 1], [str |-> S_da], [dict |-> [name |-> S_Yes]]}

\* the item at position i is a product whose flag attribute is true
C28_Flagged(i) ==
    /\ all_items[i].type = "product"
    /\ \E a \in 1..Len(all_items[i].attributes) :
          /\ all_items[i].attributes[a].name = "national_catalog"
          /\ all_items[i].attributes[a].value \in C28_TrueValues

\* the item at position j is a variant that refers to the product at i
C28_Refers(j, i) ==
    /\ all_items[j].type = "variant"
    /\ "product" \in DOMAIN all_items[j]
    /\ all_items[j].product.href \in
           {h \in {Href_p1, Href_p2, Href_p3} :
               SubSeq(h, Len(h) - 1, Len(h)) = all_items[i].id}

\* the places of the products in the list returned
C28_ProductPlaces ==
    {k \in 1..Len(result.items) : all_items[result.items[k]].type = "product"}

\* the place of the product that the entry at place k follows
C28_Owner(k) == SetMax({o \in C28_ProductPlaces : o <= k})

\* the entries that follow the product at place k, up to the next product
C28_Following(k) ==
    {m \in (k + 1)..Len(result.items) :
        \A o \in C28_ProductPlaces : ~(k < o /\ o <= m)}

\* process_products_and_variants has returned
C28_Returned == pc = "items_done" /\ result.kind = "list"

\* the list returned is: the flagged products in input order, each followed
\* at once by the variants referring to it in input order, each of these
\* linked to that product, and no item twice
C28_Listing ==
    /\ Keep(result.items, C28_ProductPlaces)
          = Positions(Len(all_items), {i \in 1..Len(all_items) : C28_Flagged(i)})
    /\ result.items # <<>> => 1 \in C28_ProductPlaces
    /\ \A k \in C28_ProductPlaces :
          Keep(result.items, C28_Following(k))
              = Positions(Len(all_items),
                          {j \in 1..Len(all_items) : C28_Refers(j, result.items[k])})
    /\ \A k \in (1..Len(result.items)) \ C28_ProductPlaces :
          /\ "_parent_product" \in DOMAIN all_items[result.items[k]]
          /\ all_items[result.items[k]]._parent_product
                 = all_items[result.items[C28_Owner(k)]]
    /\ \A k, m \in 1..Len(result.items) :
          k # m => result.items[k] # result.items[m]

\* C28 as stated: for any item list process_products_and_variants returns
\* exactly the flagged products in input order, each immediately followed by
\* all variants referring to it in input order, every such variant carrying a
\* parent link to that product; variants of unflagged products, bundles and
\* services never appear, and no item appears twice.
C28_Original == C28_Returned => C28_Listing

\* no two flagged products of the list have the same id
C28_DistinctIds ==
    \A i, j \in 1..Len(all_items) :
        (C28_Flagged(i) /\ C28_Flagged(j) /\ i # j)
            => all_items[i].id # all_items[j].id

\* C28 amended: for any item list in which no two flagged products have the
\* same id, process_products_and_variants returns exactly the flagged
\* products in input order, each immediately followed by all variants
\* referring to it in input order, every such variant carrying a parent link
\* to that product; variants of unflagged products, bundles and services
\* never appear, and no item appears twice.
C28_Amended == (C28_Returned /\ C28_DistinctIds) => C28_Listing

\* two flagged products with distinct ids, the second with a variant that
\* comes first in the input, and nothing else was returned
C28_Witness ==
    /\ C28_Returned
    /\ C28_DistinctIds
    /\ Len(all_items) = 3
    /\ all_items[1].type = "variant"
    /\ result.items = <<2, 3, 1>>
    /\ all_items[1]._parent_product = all_items[3]

\* a variant of an unflagged product, a bundle and a flagged product: only
\* the product was returned
C28_WitnessLeftOut ==
    /\ C28_Returned
    /\ Len(all_items) = 3
    /\ all_items[1].type = "variant" /\ C28_Refers(1, 3) = FALSE
    /\ all_items[2].type = "bundle"
    /\ result.items = <<3>>

\* the same flagged product twice in the list: its variant was returned twice
C28_WitnessTwice ==
    /\ C28_Returned
    /\ ~C28_DistinctIds
    /\ result.items = <<1, 3, 2, 3>>

(***************************************************************************)
(* C29: /update_gtin and the indexes outside the list                      *)
(***************************************************************************)

\* the items the routes list
C29_Listed == result_items(all_items, products_with_flag(all_items))

\* the calls that read or write the barcodes of an item
C29_EntityCalls ==
    {i \in DOMAIN calls : calls[i].call \in {"ms_entity_get", "ms_entity_put"}}

\* a request of /update_gtin with an index
C29_UpdateGtin == args.fn = "update_gtin" /\ "product_index" \in DOMAIN args

\* C29: /update_gtin rejects every product_index outside 0 .. (number of
\* listed items - 1), negative ones included, with a failure response and
\* without reading or writing any item's barcodes.
C29_OutsideRejected ==
    (C29_UpdateGtin /\ args.product_index \notin 0..(Len(C29_Listed) - 1))
        => /\ C29_EntityCalls = {}
           /\ pc = "route_done" => response.success = FALSE

\* /update_gtin was called with the index -1 on a list of four items: the
\* GTIN was written to the last one and the answer reports success
C29_NegativeIndexWritten ==
    /\ pc = "route_done"
    /\ C29_UpdateGtin /\ args.product_index = -1
    /\ Len(C29_Listed) = 4
    /\ response.success = TRUE
    /\ calls[Len(calls)].call = "ms_entity_put"
    /\ calls[Len(calls)].id = all_items[C29_Listed[4]].id

\* the part of C29 that holds: an index that is too large, or before the
\* start of the list counted from its end, is rejected
C29_FarOutsideRejected ==
    (C29_UpdateGtin /\ (args.product_index >= Len(C29_Listed)
                        \/ args.product_index < 0 - Len(C29_Listed)))
        => /\ C29_EntityCalls = {}
           /\ pc = "route_done" => response.success = FALSE

(***************************************************************************)
(* C30: /send_to_nk writes the GTIN of the status answer to the item sent   *)
(***************************************************************************)

\* a request of /send_to_nk
C30_Send == args.fn = "send_product_to_nk"

\* the writes of barcodes
C30_Writes == {i \in DOMAIN calls : calls[i].call = "ms_entity_put"}

\* the item at the index of the request
C30_Item == all_items[C29_Listed[args.product_index + 1]]

\* the card POST before the call at i was answered with a feed id
C30_Posted(i) ==
    \E p \in 1..(i - 1) :
        /\ calls[p].call = "nk_feed_post"
        /\ calls[p].outcome = "ok"
        /\ calls[p].feed_id \in FeedIds

\* the last status answer before the call at i holds a GTIN
C30_GtinReceived(i) ==
    \E s \in 1..(i - 1) :
        /\ calls[s].call = "nk_feed_status"
        /\ \A t \in (s + 1)..(i - 1) : calls[t].call # "nk_feed_status"
        /\ calls[s].outcome = "ok"
        /\ \E k \in 1..Len(calls[s].items) :
              /\ "gtin" \in DOMAIN calls[s].items[k]
              /\ calls[s].items[k].gtin # EMPTY

\* the write at i goes to the item of the request, by the endpoint of its type
C30_ToTheItem(i) ==
    /\ calls[i].id = C30_Item.id
    /\ calls[i].entity_type = "variant" <=> C30_Item.type = "variant"

\* C30: within one send_product_to_nk request a GTIN is written to the
\* inventory system only after the card POST succeeded with a feed id and a
\* status response containing a GTIN was received, and it is written to the
\* very item whose card was submitted (same id, the endpoint of its type);
\* when the submission fails or no GTIN is returned, nothing is written.
C30_WrittenAfterGtin ==
    C30_Send =>
        /\ \A i \in C30_Writes :
              C30_Posted(i) /\ C30_GtinReceived(i) /\ C30_ToTheItem(i)
        /\ (pc = "route_done" /\ ~response.success) => C30_Writes = {}
        /\ (pc = "route_done" /\ "gtin" \notin DOMAIN response) => C30_Writes = {}

\* the card of a variant was accepted, the second status answer brought a
\* GTIN, and the GTIN was written to the variant
C30_Witness ==
    /\ pc = "route_done"
    /\ C30_Send
    /\ C30_Writes # {}
    /\ C30_Item.type = "variant"
    /\ calls[Len(calls)].outcome = "ok"
    /\ response.gtin_updated_in_ms = TRUE
    /\ barcodes[Len(barcodes)] = [gtin |-> G_14]

\* the card was accepted and the status answers held no GTIN: the request
\* ended with success and nothing was written
C30_WitnessNoGtin ==
    /\ pc = "route_done"
    /\ C30_Send
    /\ response.success = TRUE
    /\ "gtin" \notin DOMAIN response
    /\ \E p \in DOMAIN calls : calls[p].call = "nk_feed_post" /\ calls[p].outcome = "ok"
    /\ C29_EntityCalls = {}

====
